---- MODULE Spec2Model ----
(***************************************************************************)
(* Model of the grid / partial-cell geometry core of mitgcm_python:        *)
(*   utils.py : fix_lon_range, xy_to_xyz, z_to_xyz, calc_hfac,             *)
(*              bdry_from_hfac, model_bdry                                 *)
(*   grid.py  : Grid.__init__ (longitude window, boundaries, masks),       *)
(*              build_land_mask, build_ice_mask, get_land_mask,            *)
(*              get_ice_mask, get_open_ocean_mask, grid_check_split        *)
(*                                                                         *)
(* Arrays are 1-based sequences (hfac[k][j][i] is the source's             *)
(* hfac[k-1,j-1,i-1]).  Real numbers are exact rationals <<n, d>> in       *)
(* lowest terms with d > 0; NaN is the pair <<0, 0>>.  Depths and          *)
(* longitudes given to the functions are integers (metres, degrees).       *)
(***************************************************************************)
EXTENDS Integers, Sequences, FiniteSets, TLC

VARIABLES call, args, ret, grid

vars == <<call, args, ret, grid>>

-----------------------------------------------------------------------------
(* Bounds of the model *)

\* largest number of vertical levels of a column given to the geometry engine
MaxNz == 3
\* largest number of horizontal points of a multi-column bathymetry array
MaxCells == 3
\* largest length of an array given directly to fix_lon_range
MaxLonLen == 2
\* largest number of points of a longitude axis read into a Grid
MaxNx == 3
\* largest number of horizontal points of the hfac arrays read into a Grid
MaxPts == 2

-----------------------------------------------------------------------------
(* Real arithmetic *)

Abs(x) == IF x < 0 THEN -x ELSE x

RECURSIVE GCD(_, _)
GCD(a, b) == IF b = 0 THEN a ELSE GCD(b, a % b)

\* the rational n/d in lowest terms, d # 0
Rat(n, d) ==
    LET g == GCD(Abs(n), Abs(d))
        s == IF d < 0 THEN -1 ELSE 1
    IN  <<(s * n) \div g, (s * d) \div g>>

R(n) == <<n, 1>>
NaN  == <<0, 0>>
isnan(x) == x[2] = 0

RAdd(x, y) == Rat(x[1] * y[2] + y[1] * x[2], x[2] * y[2])
RSub(x, y) == Rat(x[1] * y[2] - y[1] * x[2], x[2] * y[2])
RMul(x, y) == Rat(x[1] * y[1], x[2] * y[2])
RDiv(x, y) == Rat(x[1] * y[2], x[2] * y[1])
RLt(x, y)  == x[1] * y[2] < y[1] * x[2]
RLe(x, y)  == x[1] * y[2] <= y[1] * x[2]
RGe(x, y)  == RLe(y, x)
RGt(x, y)  == RLt(y, x)
RMax(x, y) == IF RLt(x, y) THEN y ELSE x
RMin(x, y) == IF RLt(y, x) THEN y ELSE x
RAbs(x)    == <<Abs(x[1]), x[2]>>

Max(a, b) == IF a < b THEN b ELSE a
Min(a, b) == IF b < a THEN b ELSE a

-----------------------------------------------------------------------------
(* utils.py: tiling *)

\* xy_to_xyz(data, [nx, ny, nz]): nz copies of the 2D array
xy_to_xyz(data, g) == [k \in 1..g[3] |-> data]

\* z_to_xyz(data, [nx, ny, .]): reads only the first two entries of the triple
Mut_z_to_xyz(data, g) ==
    [k \in 1..Len(data) |-> [j \in 1..g[3] |-> [i \in 1..g[1] |-> data[k]]]]

z_to_xyz(data, g) ==
    [k \in 1..Len(data) |-> [j \in 1..g[2] |-> [i \in 1..g[1] |-> data[k]]]]

-----------------------------------------------------------------------------
(* utils.py: calc_hfac *)

\* bathymetry on the western edge: own value in the first column, else the
\* shallower of the two adjacent tracer cells
bathy_u(bathy) ==
    [j \in 1..Len(bathy) |-> [i \in 1..Len(bathy[1]) |->
        IF i = 1 THEN bathy[j][1] ELSE Max(bathy[j][i-1], bathy[j][i])]]

draft_u_min(draft) ==
    [j \in 1..Len(draft) |-> [i \in 1..Len(draft[1]) |->
        IF i = 1 THEN draft[j][1] ELSE Min(draft[j][i-1], draft[j][i])]]

bathy_v(bathy) ==
    [j \in 1..Len(bathy) |-> [i \in 1..Len(bathy[1]) |->
        IF j = 1 THEN bathy[1][i] ELSE Max(bathy[j-1][i], bathy[j][i])]]

draft_v_min(draft) ==
    [j \in 1..Len(draft) |-> [i \in 1..Len(draft[1]) |->
        IF j = 1 THEN draft[1][i] ELSE Min(draft[j-1][i], draft[j][i])]]

\* draft = np.maximum(draft, bathy)
wct_correct(draft, bathy) ==
    [j \in 1..Len(draft) |-> [i \in 1..Len(draft[1]) |->
        Max(draft[j][i], bathy[j][i])]]

\* the local variable bathy after the gtype branch
Mut_bathy_g(bathy, gtype) ==
    IF gtype = "u" THEN bathy_v(bathy)
    ELSE IF gtype = "v" THEN bathy_u(bathy)
    ELSE bathy

bathy_g(bathy, gtype) ==
    IF gtype = "u" THEN bathy_u(bathy)
    ELSE IF gtype = "v" THEN bathy_v(bathy)
    ELSE bathy

\* the local variable draft after the gtype branch
draft_g(bathy, draft, gtype) ==
    IF gtype = "u" THEN wct_correct(draft_u_min(draft), bathy_u(bathy))
    ELSE IF gtype = "v" THEN wct_correct(draft_v_min(draft), bathy_v(bathy))
    ELSE draft

\* dz = np.abs(z_edges[1:] - z_edges[:-1])
dz_abs(z_edges) ==
    [k \in 1..(Len(z_edges) - 1) |-> Abs(z_edges[k+1] - z_edges[k])]

\* one cell of the four masked assignments, applied in the source's order to
\* a cell that starts closed
Mut_raw_hfac(b, d, za, zb, dz) ==
    LET h0 == R(0)
        h1 == IF zb >= b /\ za <= d THEN R(1) ELSE h0
        h2 == IF zb < b /\ za <= d THEN Rat(za - b, dz) ELSE h1
        h3 == IF zb >= b /\ za > d THEN Rat(d - zb, dz) ELSE h2
        h4 == IF zb < b /\ za > d THEN Rat(za - b, dz) ELSE h3
    IN  h4

raw_hfac(b, d, za, zb, dz) ==
    LET h0 == R(0)
        h1 == IF zb >= b /\ za <= d THEN R(1) ELSE h0
        h2 == IF zb < b /\ za <= d THEN Rat(za - b, dz) ELSE h1
        h3 == IF zb >= b /\ za > d THEN Rat(d - zb, dz) ELSE h2
        h4 == IF zb < b /\ za > d THEN Rat(d - b, dz) ELSE h3
    IN  h4

\* hfac_limit = np.maximum(hFacMin, np.minimum(hFacMinDr/dz, 1))
hfac_limit(hFacMin, hFacMinDr, dz) ==
    RMax(hFacMin, RMin(RDiv(hFacMinDr, R(dz)), R(1)))

\* the two masked assignments of the hFac limitations, in the source's order
Mut_apply_limit(h, lim) ==
    LET half == RDiv(lim, R(2))
        a1 == IF RLt(h, lim) THEN R(0) ELSE h
        a2 == IF RGe(a1, half) /\ RLt(a1, lim) THEN lim ELSE a1
    IN  a2

Mut_apply_limit_nozero(h, lim) ==
    LET half == RDiv(lim, R(2))
    IN  IF RGe(h, half) /\ RLt(h, lim) THEN lim ELSE h

apply_limit(h, lim) ==
    LET half == RDiv(lim, R(2))
        a1 == IF RLt(h, half) THEN R(0) ELSE h
        a2 == IF RGe(a1, half) /\ RLt(a1, lim) THEN lim ELSE a1
    IN  a2

\* hfac before the limitations (the array after the four masked assignments)
calc_hfac_raw(bathy, draft, z_edges, gtype) ==
    LET b2  == bathy_g(bathy, gtype)
        d2  == draft_g(bathy, draft, gtype)
        dz1 == dz_abs(z_edges)
        nz  == Len(dz1)
        ny  == Len(b2)
        nx  == Len(b2[1])
        b3  == xy_to_xyz(b2, <<nx, ny, nz>>)
        d3  == xy_to_xyz(d2, <<nx, ny, nz>>)
        dz3 == z_to_xyz(dz1, <<nx, ny, ny>>)
        za3 == z_to_xyz([k \in 1..nz |-> z_edges[k]], <<nx, ny, nz>>)
        zb3 == z_to_xyz([k \in 1..nz |-> z_edges[k+1]], <<nx, ny, nz>>)
    IN  [k \in 1..nz |-> [j \in 1..ny |-> [i \in 1..nx |->
            raw_hfac(b3[k][j][i], d3[k][j][i], za3[k][j][i], zb3[k][j][i],
                     dz3[k][j][i])]]]

calc_hfac(bathy, draft, z_edges, hFacMin, hFacMinDr, gtype) ==
    LET raw == calc_hfac_raw(bathy, draft, z_edges, gtype)
        dz1 == dz_abs(z_edges)
        ny  == Len(bathy)
        nx  == Len(bathy[1])
        dz3 == z_to_xyz(dz1, <<nx, ny, ny>>)
    IN  [k \in 1..Len(dz1) |-> [j \in 1..ny |-> [i \in 1..nx |->
            apply_limit(raw[k][j][i],
                        hfac_limit(hFacMin, hFacMinDr, dz3[k][j][i]))]]]

-----------------------------------------------------------------------------
(* utils.py: bdry_from_hfac, model_bdry *)

\* dz = z_edges[:-1] - z_edges[1:]
dz_signed(z_edges) ==
    [k \in 1..(Len(z_edges) - 1) |-> z_edges[k] - z_edges[k+1]]

\* range(nz-1, -1, -1) for 'bathy', range(nz) for 'draft' (1-based here)
Mut_k_vals(option, nz) ==
    IF option = "bathy" THEN [n \in 1..nz |-> n]
    ELSE [n \in 1..nz |-> nz + 1 - n]

k_vals(option, nz) ==
    IF option = "bathy" THEN [n \in 1..nz |-> nz + 1 - n]
    ELSE [n \in 1..nz |-> n]

\* one pass of the loop body over the 2D array bdry, for level k
Mut_bdry_step(option, hfac, z_edges, bdry, k) ==
    LET dz == dz_signed(z_edges)
    IN  [j \in 1..Len(bdry) |-> [i \in 1..Len(bdry[1]) |->
            IF hfac[k][j][i] # R(0)
            THEN IF option = "bathy"
                 THEN RSub(R(z_edges[k]), RMul(R(dz[k]), hfac[k][j][i]))
                 ELSE RSub(R(z_edges[k]),
                           RMul(R(dz[k]), RSub(R(1), hfac[k][j][i])))
            ELSE bdry[j][i]]]

bdry_step(option, hfac, z_edges, bdry, k) ==
    LET dz == dz_signed(z_edges)
    IN  [j \in 1..Len(bdry) |-> [i \in 1..Len(bdry[1]) |->
            IF hfac[k][j][i] # R(0) /\ isnan(bdry[j][i])
            THEN IF option = "bathy"
                 THEN RSub(R(z_edges[k]), RMul(R(dz[k]), hfac[k][j][i]))
                 ELSE RSub(R(z_edges[k]),
                           RMul(R(dz[k]), RSub(R(1), hfac[k][j][i])))
            ELSE bdry[j][i]]]

\* the for loop: the levels of ks from position n on
RECURSIVE bdry_loop(_, _, _, _, _, _)
bdry_loop(option, hfac, z_edges, bdry, ks, n) ==
    IF n > Len(ks) THEN bdry
    ELSE bdry_loop(option, hfac, z_edges,
                   bdry_step(option, hfac, z_edges, bdry, ks[n]), ks, n + 1)

\* bdry[np.isnan(bdry)] = 0
Mut_nan_to_zero(bdry) == bdry

nan_to_zero(bdry) ==
    [j \in 1..Len(bdry) |-> [i \in 1..Len(bdry[1]) |->
        IF isnan(bdry[j][i]) THEN R(0) ELSE bdry[j][i]]]

\* the result: the array, or the exit taken on an invalid option
bdry_from_hfac(option, hfac, z_edges) ==
    LET nz == Len(hfac)
        ny == Len(hfac[1])
        nx == Len(hfac[1][1])
        b0 == [j \in 1..ny |-> [i \in 1..nx |-> NaN]]
    IN  IF option \notin {"bathy", "draft"}
        THEN [status |-> "exit", bdry |-> <<>>]
        \* dz has Len(z_edges) - 1 entries and the loop reads dz[k] for
        \* every level k of hfac
        ELSE IF Len(z_edges) - 1 < nz
        THEN [status |-> "IndexError", bdry |-> <<>>]
        ELSE [status |-> "ok",
              bdry |-> nan_to_zero(bdry_loop(option, hfac, z_edges, b0,
                                             k_vals(option, nz), 1))]

\* model_bdry calls calc_hfac with its default gtype 't'
model_bdry(option, bathy, draft, z_edges, hFacMin, hFacMinDr) ==
    bdry_from_hfac(option,
                   calc_hfac(bathy, draft, z_edges, hFacMin, hFacMinDr, "t"),
                   z_edges)

-----------------------------------------------------------------------------
(* utils.py: fix_lon_range *)

\* an optional argument is the empty set (None) or the set of its value
None == {}
Some(x) == {x}
ValueOf(o) == CHOOSE x \in o : TRUE

\* the two masked assignments on the array, in the source's order; the array
\* is changed in place and returned
Mut_fix_lon_range(lon, max_lon) ==
    IF max_lon = None THEN lon
    ELSE LET m  == ValueOf(max_lon)
             l1 == [i \in 1..Len(lon) |->
                       IF lon[i] > m THEN lon[i] - 360 ELSE lon[i]]
         IN  [i \in 1..Len(lon) |->
                 IF l1[i] < m - 360 THEN l1[i] + 360 ELSE l1[i]]

fix_lon_range(lon, max_lon) ==
    IF max_lon = None THEN lon
    ELSE LET m  == ValueOf(max_lon)
             l1 == [i \in 1..Len(lon) |->
                       IF lon[i] >= m THEN lon[i] - 360 ELSE lon[i]]
         IN  [i \in 1..Len(lon) |->
                 IF l1[i] < m - 360 THEN l1[i] + 360 ELSE l1[i]]

-----------------------------------------------------------------------------
(* grid.py: Grid *)

RECURSIVE RSum(_, _)
RSum(s, n) == IF n = 0 THEN R(0) ELSE RAdd(s[n], RSum(s, n - 1))

\* np.sum(hfac, axis=0) at one point
ColumnSum(hfac, j, i) == RSum([k \in 1..Len(hfac) |-> hfac[k][j][i]], Len(hfac))

\* np.sum(hfac, axis=0)==0
build_land_mask(hfac) ==
    [j \in 1..Len(hfac[1]) |-> [i \in 1..Len(hfac[1][1]) |->
        ColumnSum(hfac, j, i) = R(0)]]

\* (np.sum(hfac, axis=0)!=0)*(hfac[0,:]<1)
Mut_build_ice_mask(hfac) ==
    [j \in 1..Len(hfac[1]) |-> [i \in 1..Len(hfac[1][1]) |->
        RLt(hfac[1][j][i], R(1))]]

build_ice_mask(hfac) ==
    [j \in 1..Len(hfac[1]) |-> [i \in 1..Len(hfac[1][1]) |->
        ColumnSum(hfac, j, i) # R(0) /\ RLt(hfac[1][j][i], R(1))]]

SeqMin(s) == CHOOSE x \in {s[i] : i \in 1..Len(s)} :
                 \A i \in 1..Len(s) : x <= s[i]
SeqMax(s) == CHOOSE x \in {s[i] : i \in 1..Len(s)} :
                 \A i \in 1..Len(s) : s[i] <= x

\* np.all(np.diff(lon)>0)
all_diff_positive(lon) == \A i \in 1..(Len(lon) - 1) : lon[i+1] - lon[i] > 0

\* the window chosen automatically from the raw centre axis
auto_max_lon(lon_1d) ==
    IF SeqMin(lon_1d) < 180 /\ SeqMax(lon_1d) > 180 THEN 360 ELSE 180

\* fix_lon_range on a 2D array, row by row
fix_lon_range_2d(lon_2d, max_lon) ==
    [j \in 1..Len(lon_2d) |-> fix_lon_range(lon_2d[j], max_lon)]

\* constants.py: bounds as lon_min, lon_max, lat_min, lat_max (degrees) and
\* the shelf threshold (m)
fris_bounds == <<R(-85), R(-29), R(-84), R(-74)>>
ewed_bounds == <<R(-30), R(40), R(-77), R(-65)>>
sws_shelf_bounds == <<R(-70), R(-30), R(-79), R(-72)>>
sws_shelf_h0 == R(-1250)
sws_shelf_line == <<R(-70), R(-15), R(-72), R(-80)>>
a23a_bounds == <<R(-47), R(-38), R(-77), R(-75)>>
berkner_island_bounds == <<R(-55), R(-41), R(-81), R(-77)>>

\* (lon >= bounds[0])*(lon <= bounds[1])*(lat >= bounds[2])*(lat <= bounds[3])
\* at one point; lon is an integer number of degrees, lat a rational one
in_bounds(lon, lat, bounds) ==
    /\ RGe(R(lon), bounds[1]) /\ RLe(R(lon), bounds[2])
    /\ RGe(lat, bounds[3]) /\ RLe(lat, bounds[4])

\* the two parts of FRIS, split along 45W
Mut_fris_regions ==
    <<<<fris_bounds[1], R(-45), fris_bounds[3], Rat(-744, 10)>>,
      <<fris_bounds[1], fris_bounds[2], fris_bounds[3], Rat(-7785, 100)>>>>

fris_regions ==
    <<<<fris_bounds[1], R(-45), fris_bounds[3], Rat(-744, 10)>>,
      <<R(-45), fris_bounds[2], fris_bounds[3], Rat(-7785, 100)>>>>

\* build_fris_mask: False everywhere, then True at the ice points of each
\* region in turn
Mut_build_fris_mask(ice_mask, lon, lat) ==
    [j \in 1..Len(ice_mask) |-> [i \in 1..Len(ice_mask[1]) |->
        \E r \in 1..Len(fris_regions) :
            in_bounds(lon[j][i], lat[j][i], fris_regions[r])]]

build_fris_mask(ice_mask, lon, lat) ==
    [j \in 1..Len(ice_mask) |-> [i \in 1..Len(ice_mask[1]) |->
        \E r \in 1..Len(fris_regions) :
            ice_mask[j][i] /\ in_bounds(lon[j][i], lat[j][i], fris_regions[r])]]

build_ewed_mask(ice_mask, lon, lat) ==
    [j \in 1..Len(ice_mask) |-> [i \in 1..Len(ice_mask[1]) |->
        ice_mask[j][i] /\ in_bounds(lon[j][i], lat[j][i], ewed_bounds)]]

\* the longitude bounds of the shelf box for the grid's split
Mut_sws_lon_bounds(split) == <<sws_shelf_bounds[1], sws_shelf_bounds[2]>>

sws_lon_bounds(split) ==
    LET xmin == sws_shelf_bounds[1]
        xmax == sws_shelf_bounds[2]
    IN  IF split = Some(0)
        THEN <<IF RLt(xmin, R(0)) THEN RAdd(xmin, R(360)) ELSE xmin,
               IF RLt(xmax, R(0)) THEN RAdd(xmax, R(360)) ELSE xmax>>
        ELSE <<xmin, xmax>>

\* build_sws_shelf_mask, for a Grid that has the attribute split
build_sws_shelf_mask(split, land_mask, ice_mask, lon, lat, bathy) ==
    LET x == sws_lon_bounds(split)
    IN  [j \in 1..Len(land_mask) |-> [i \in 1..Len(land_mask[1]) |->
            /\ ~land_mask[j][i] /\ ~ice_mask[j][i]
            /\ RGe(bathy[j][i], sws_shelf_h0)
            /\ in_bounds(lon[j][i], lat[j][i],
                   <<x[1], x[2], sws_shelf_bounds[3], sws_shelf_bounds[4]>>)]]

\* build_sws_shelf_mask_inner_outer: the two sides of the line across the shelf
sws_line_lat(lon) ==
    RAdd(RMul(RDiv(RSub(sws_shelf_line[4], sws_shelf_line[3]),
                   RSub(sws_shelf_line[2], sws_shelf_line[1])),
              RSub(R(lon), sws_shelf_line[1])),
         sws_shelf_line[3])

build_sws_shelf_mask_inner(sws_shelf_mask, lon, lat) ==
    [j \in 1..Len(lon) |-> [i \in 1..Len(lon[1]) |->
        sws_shelf_mask[j][i] /\ RLt(lat[j][i], sws_line_lat(lon[j][i]))]]

build_sws_shelf_mask_outer(sws_shelf_mask, lon, lat) ==
    [j \in 1..Len(lon) |-> [i \in 1..Len(lon[1]) |->
        sws_shelf_mask[j][i] /\ RGe(lat[j][i], sws_line_lat(lon[j][i]))]]

\* Grid.__init__.  src.path is "nc", "dir" or "bad"; src.ndim is the number of
\* dimensions of the coordinate arrays read (2: the 1D axes are views of the
\* first row of the 2D arrays and share their data; 1: they are copies and
\* the 2D arrays are meshed from them).  The result is the exit taken or the
\* attributes of the object.  build_sws_shelf_mask reads self.split, which
\* is set only for the windows 360 and 180: for any other window, and when
\* no window is used, the read raises AttributeError and no object results.
GridInit(src, x_is_lon, max_lon) ==
    IF src.path = "bad" THEN [status |-> "exit", error |-> "bad_path"]
    ELSE
    LET ny     == Len(src.hfac[1])
        raw2   == [j \in 1..ny |-> src.lon]
        rawc2  == [j \in 1..ny |-> src.lon_corners]
        auto   == max_lon = None /\ x_is_lon
        m      == IF auto THEN Some(auto_max_lon(src.lon)) ELSE max_lon
        \* line 123: the array tested
        test   == IF auto THEN fix_lon_range(src.lon, m) ELSE src.lon
        split  == IF m = Some(360) THEN Some(0)
                  ELSE IF m = Some(180) THEN Some(180)
                  ELSE None
        \* lines 132, 133
        l1     == fix_lon_range(test, m)
        c1     == fix_lon_range(src.lon_corners, m)
        \* lines 134, 135: the first row holds the 1D axis when it is a view
        l2     == fix_lon_range_2d(
                     [j \in 1..ny |-> IF j = 1 /\ src.ndim = 2 THEN l1
                                      ELSE raw2[j]], m)
        c2     == fix_lon_range_2d(
                     [j \in 1..ny |-> IF j = 1 /\ src.ndim = 2 THEN c1
                                      ELSE rawc2[j]], m)
        nx     == Len(src.lon)
        lat2   == [j \in 1..ny |-> [i \in 1..nx |-> src.lat[j]]]
        latc2  == [j \in 1..ny |-> [i \in 1..nx |-> src.lat_corners[j]]]
        bathy  == bdry_from_hfac("bathy", src.hfac, src.z_edges).bdry
        land   == build_land_mask(src.hfac)
        ice    == build_ice_mask(src.hfac)
        ice_u  == build_ice_mask(src.hfac_w)
        ice_v  == build_ice_mask(src.hfac_s)
        shelf  == build_sws_shelf_mask(split, land, ice, l2, lat2, bathy)
    IN  IF auto /\ ~all_diff_positive(test)
        THEN [status |-> "exit", error |-> "not_increasing"]
        ELSE IF split = None
        THEN [status |-> "exit", error |-> "AttributeError_split"]
        ELSE [status |-> "ok",
              class |-> "Grid",
              x_is_lon |-> x_is_lon,
              max_lon |-> m,
              split |-> split,
              lon_1d |-> IF src.ndim = 2 THEN l2[1] ELSE l1,
              lon_corners_1d |-> IF src.ndim = 2 THEN c2[1] ELSE c1,
              lon_2d |-> l2,
              lon_corners_2d |-> c2,
              lat_1d |-> src.lat,
              lat_corners_1d |-> src.lat_corners,
              lat_2d |-> lat2,
              lat_corners_2d |-> latc2,
              nx |-> nx,
              ny |-> ny,
              nz |-> Len(src.z),
              z |-> src.z,
              z_edges |-> src.z_edges,
              hfac |-> src.hfac,
              hfac_w |-> src.hfac_w,
              hfac_s |-> src.hfac_s,
              bathy |-> bathy,
              draft |-> bdry_from_hfac("draft", src.hfac, src.z_edges).bdry,
              land_mask |-> land,
              land_mask_u |-> build_land_mask(src.hfac_w),
              land_mask_v |-> build_land_mask(src.hfac_s),
              ice_mask |-> ice,
              ice_mask_u |-> ice_u,
              ice_mask_v |-> ice_v,
              fris_mask |-> build_fris_mask(ice, l2, lat2),
              fris_mask_u |-> build_fris_mask(ice_u, c2, lat2),
              fris_mask_v |-> build_fris_mask(ice_v, l2, latc2),
              ewed_mask |-> build_ewed_mask(ice, l2, lat2),
              sws_shelf_mask |-> shelf,
              sws_shelf_mask_inner |->
                  build_sws_shelf_mask_inner(shelf, l2, lat2),
              sws_shelf_mask_outer |->
                  build_sws_shelf_mask_outer(shelf, l2, lat2)]

\* grid_check_split: the Grid built with the window of the split, or an exit
grid_check_split(src, split) ==
    IF split \notin {180, 0}
    THEN [status |-> "exit", error |-> "bad_split"]
    ELSE LET g == GridInit(src, TRUE, Some(IF split = 180 THEN 180 ELSE 360))
         IN  IF g.status = "ok" /\ g.lon_1d[1] > g.lon_1d[Len(g.lon_1d)]
             THEN [status |-> "exit", error |-> "crosses"]
             ELSE g

\* get_lon_lat: the pair of coordinate arrays of the grid type, 1D or 2D, or
\* the exit taken; dim is tested first
Mut_get_lon_lat(g, gtype, dim) ==
    IF dim \notin {1, 2} THEN [status |-> "exit", error |-> "bad_dim"]
    ELSE
    LET lon         == IF dim = 1 THEN g.lon_1d ELSE g.lon_2d
        lon_corners == IF dim = 1 THEN g.lon_corners_1d ELSE g.lon_corners_2d
        lat         == IF dim = 1 THEN g.lat_1d ELSE g.lat_2d
        lat_corners == IF dim = 1 THEN g.lat_corners_1d ELSE g.lat_corners_2d
    IN  IF gtype = "t"
        THEN [status |-> "ok", lon |-> lon, lat |-> lat]
        ELSE IF gtype = "u"
        THEN [status |-> "ok", lon |-> lon_corners, lat |-> lat]
        ELSE IF gtype = "v"
        THEN [status |-> "ok", lon |-> lon, lat |-> lat_corners]
        ELSE IF gtype = "psi"
        THEN [status |-> "ok", lon |-> lon_corners, lat |-> lat_corners]
        ELSE [status |-> "exit", error |-> "bad_gtype"]

get_lon_lat(g, gtype, dim) ==
    IF dim \notin {1, 2} THEN [status |-> "exit", error |-> "bad_dim"]
    ELSE
    LET lon         == IF dim = 1 THEN g.lon_1d ELSE g.lon_2d
        lon_corners == IF dim = 1 THEN g.lon_corners_1d ELSE g.lon_corners_2d
        lat         == IF dim = 1 THEN g.lat_1d ELSE g.lat_2d
        lat_corners == IF dim = 1 THEN g.lat_corners_1d ELSE g.lat_corners_2d
    IN  IF gtype \in {"t", "w"}
        THEN [status |-> "ok", lon |-> lon, lat |-> lat]
        ELSE IF gtype = "u"
        THEN [status |-> "ok", lon |-> lon_corners, lat |-> lat]
        ELSE IF gtype = "v"
        THEN [status |-> "ok", lon |-> lon, lat |-> lat_corners]
        ELSE IF gtype = "psi"
        THEN [status |-> "ok", lon |-> lon_corners, lat |-> lat_corners]
        ELSE [status |-> "exit", error |-> "bad_gtype"]

\* get_hfac, get_fris_mask: the array of the grid type, or an exit; SOSEGrid
\* replaces get_fris_mask and get_ice_mask by an exit
get_hfac(g, gtype) ==
    IF gtype = "t" THEN [status |-> "ok", value |-> g.hfac]
    ELSE IF gtype = "u" THEN [status |-> "ok", value |-> g.hfac_w]
    ELSE IF gtype = "v" THEN [status |-> "ok", value |-> g.hfac_s]
    ELSE [status |-> "exit", error |-> "no_hfac"]

get_fris_mask(g, gtype) ==
    IF g.class = "SOSEGrid"
    THEN [status |-> "exit", error |-> "no ice shelves to mask"]
    ELSE IF gtype = "t" THEN [status |-> "ok", value |-> g.fris_mask]
    ELSE IF gtype = "u" THEN [status |-> "ok", value |-> g.fris_mask_u]
    ELSE IF gtype = "v" THEN [status |-> "ok", value |-> g.fris_mask_v]
    ELSE [status |-> "exit", error |-> "no_mask"]

\* get_land_mask, get_ice_mask: the mask of the grid type, or an exit
get_land_mask(g, gtype) ==
    IF gtype = "t" THEN [status |-> "ok", value |-> g.land_mask]
    ELSE IF gtype = "u" THEN [status |-> "ok", value |-> g.land_mask_u]
    ELSE IF gtype = "v" THEN [status |-> "ok", value |-> g.land_mask_v]
    ELSE [status |-> "exit", error |-> "no_mask"]

get_ice_mask(g, gtype) ==
    IF g.class = "SOSEGrid"
    THEN [status |-> "exit", error |-> "no ice shelves to mask"]
    ELSE IF gtype = "t" THEN [status |-> "ok", value |-> g.ice_mask]
    ELSE IF gtype = "u" THEN [status |-> "ok", value |-> g.ice_mask_u]
    ELSE IF gtype = "v" THEN [status |-> "ok", value |-> g.ice_mask_v]
    ELSE [status |-> "exit", error |-> "no_mask"]

\* get_open_ocean_mask: ones, set to zero at land and then at ice points
get_open_ocean_mask(g, gtype) ==
    LET land == get_land_mask(g, gtype)
        ice  == get_ice_mask(g, gtype)
        o0   == [j \in 1..g.ny |-> [i \in 1..g.nx |-> 1]]
    IN  IF land.status = "exit" THEN land
        ELSE LET o1 == [j \in 1..g.ny |-> [i \in 1..g.nx |->
                           IF land.value[j][i] THEN 0 ELSE o0[j][i]]]
             IN  IF ice.status = "exit" THEN ice
                 ELSE [status |-> "ok",
                       value |-> [j \in 1..g.ny |-> [i \in 1..g.nx |->
                           IF ice.value[j][i] THEN 0 ELSE o1[j][i]]]]

\* get_bi_mask: the land points of the grid type inside the Berkner Island box
get_bi_mask(g, gtype) ==
    LET ll   == get_lon_lat(g, gtype, 2)
        land == get_land_mask(g, gtype)
    IN  IF ll.status = "exit" THEN ll
        ELSE IF land.status = "exit" THEN land
        ELSE [status |-> "ok",
              value |-> [j \in 1..Len(land.value) |->
                           [i \in 1..Len(land.value[j]) |->
                  /\ in_bounds(ll.lon[j][i], ll.lat[j][i],
                               berkner_island_bounds)
                  /\ land.value[j][i]]]]

\* get_coast_mask: the open-ocean points with a land or ice shelf neighbour,
\* without those in the box of iceberg A23A.  has_neighbour[j][i] stands for
\* num_coast_neighbours > 0, the count that neighbours() of the interpolation
\* module returns for land_ice = 1 - open_ocean.
get_coast_mask(g, gtype, ignore_iceberg, has_neighbour) ==
    LET open_ocean == get_open_ocean_mask(g, gtype)
        ll         == get_lon_lat(g, gtype, 2)
    IN  IF open_ocean.status = "exit" THEN open_ocean
        ELSE LET coast_mask == [j \in 1..Len(open_ocean.value) |->
                                  [i \in 1..Len(open_ocean.value[j]) |->
                                      /\ open_ocean.value[j][i] = 1
                                      /\ has_neighbour[j][i]]]
             IN  IF ~ignore_iceberg
                 THEN [status |-> "ok", value |-> coast_mask]
                 ELSE IF ll.status = "exit" THEN ll
                 ELSE [status |-> "ok",
                       value |-> [j \in 1..Len(coast_mask) |->
                                    [i \in 1..Len(coast_mask[j]) |->
                           /\ ~in_bounds(ll.lon[j][i], ll.lat[j][i],
                                         a23a_bounds)
                           /\ coast_mask[j][i]]]]

-----------------------------------------------------------------------------
(* grid.py: SOSEGrid, the axes (lines 404-626) *)

\* constants.py: the resolution of the SOSE grid in degrees
sose_res == Rat(1, 6)

\* utils.py split_longitude on a 1D array: array[split:] then array[:split]
Mut_split_longitude(array, split) == array

split_longitude(array, split) ==
    SubSeq(array, split + 1, Len(array)) \o SubSeq(array, 1, split)

\* a[lo:hi] for 0 <= lo and 0 <= hi, indices counted from 0
PySlice(a, lo, hi) == SubSeq(a, lo + 1, Min(hi, Len(a)))

\* np.nonzero(a > x)[0][0] and np.nonzero(a < x)[0][0], counted from 0; -1
\* stands for the IndexError raised when no entry qualifies
first_gt(a, x) ==
    IF \E i \in 1..Len(a) : a[i] > x
    THEN (CHOOSE i \in 1..Len(a) :
              a[i] > x /\ \A h \in 1..(i - 1) : ~(a[h] > x)) - 1
    ELSE -1
first_lt(a, x) ==
    IF \E i \in 1..Len(a) : a[i] < x
    THEN (CHOOSE i \in 1..Len(a) :
              a[i] < x /\ \A h \in 1..(i - 1) : ~(a[h] < x)) - 1
    ELSE -1
first_gt_r(a, x) ==
    IF \E i \in 1..Len(a) : RGt(a[i], x)
    THEN (CHOOSE i \in 1..Len(a) :
              RGt(a[i], x) /\ \A h \in 1..(i - 1) : ~RGt(a[h], x)) - 1
    ELSE -1

\* np.amin, np.amax of a 2D array of integers, of rationals
amin(a) == SeqMin([n \in 1..(Len(a) * Len(a[1])) |->
               a[((n - 1) \div Len(a[1])) + 1][((n - 1) % Len(a[1])) + 1]])
amax(a) == SeqMax([n \in 1..(Len(a) * Len(a[1])) |->
               a[((n - 1) \div Len(a[1])) + 1][((n - 1) % Len(a[1])) + 1]])
amin_r(a) ==
    CHOOSE x \in {a[j][i] : j \in 1..Len(a), i \in 1..Len(a[1])} :
        \A j \in 1..Len(a), i \in 1..Len(a[1]) : RLe(x, a[j][i])
amax_r(a) ==
    CHOOSE x \in {a[j][i] : j \in 1..Len(a), i \in 1..Len(a[1])} :
        \A j \in 1..Len(a), i \in 1..Len(a[1]) : RLe(a[j][i], x)

\* int(np.ceil(q)) of a float64 quotient whose exact value is the rational
\* q >= 0.  The quotient is (lat_1d[0]-ymin)/sose_res with sose_res = 1/6.,
\* which float64 does not hold exactly: when the exact value is a whole number
\* n the computed one is n or a value just below or just above n (lat_1d[0] =
\* -63.9 and ymin = lat_1d[0] - 2*sose_res give 2.000000000000014; lat_1d[0] =
\* -78.0 and ymin = lat_1d[0] - sose_res give 1.0000000000000284), so the
\* result is n or n + 1; up says which.
float_ceil(q, up) ==
    IF q[1] % q[2] = 0
    THEN (q[1] \div q[2]) + (IF up THEN 1 ELSE 0)
    ELSE (q[1] \div q[2]) + 1

\* the western, eastern, southern and northern windows and the depth window
\* (lines 509-580); every result is the exit taken or the indices
Mut_west_window(lon_1d, xmin) ==
    IF xmin = lon_1d[1] THEN [status |-> "ok", i0_before |-> 0]
    ELSE IF xmin > lon_1d[1]
    THEN IF first_gt(lon_1d, xmin) < 0
         THEN [status |-> "exit", error |-> "IndexError"]
         ELSE [status |-> "ok", i0_before |-> first_gt(lon_1d, xmin)]
    ELSE [status |-> "exit", error |-> "not allowed to extend westward"]

west_window(lon_1d, xmin) ==
    IF xmin = lon_1d[1] THEN [status |-> "ok", i0_before |-> 0]
    ELSE IF xmin > lon_1d[1]
    THEN IF first_gt(lon_1d, xmin) < 0
         THEN [status |-> "exit", error |-> "IndexError"]
         ELSE [status |-> "ok", i0_before |-> first_gt(lon_1d, xmin) - 1]
    ELSE [status |-> "exit", error |-> "not allowed to extend westward"]

Mut_east_window(lon_corners_1d, xmax) ==
    IF xmax = lon_corners_1d[Len(lon_corners_1d)]
    THEN [status |-> "ok", i1_before |-> Len(lon_corners_1d)]
    ELSE IF xmax < lon_corners_1d[Len(lon_corners_1d)]
    THEN [status |-> "ok", i1_before |-> first_gt(lon_corners_1d, xmax) + 1]
    ELSE [status |-> "ok", i1_before |-> Len(lon_corners_1d)]

east_window(lon_corners_1d, xmax) ==
    IF xmax = lon_corners_1d[Len(lon_corners_1d)]
    THEN [status |-> "ok", i1_before |-> Len(lon_corners_1d)]
    ELSE IF xmax < lon_corners_1d[Len(lon_corners_1d)]
    THEN [status |-> "ok", i1_before |-> first_gt(lon_corners_1d, xmax) + 1]
    ELSE [status |-> "exit", error |-> "not allowed to extend eastward"]

south_window(lat_1d, ymin, up) ==
    IF ymin = lat_1d[1]
    THEN [status |-> "ok", j0_before |-> 0, j0_after |-> 0]
    ELSE IF RGt(ymin, lat_1d[1])
    THEN IF first_gt_r(lat_1d, ymin) < 0
         THEN [status |-> "exit", error |-> "IndexError"]
         ELSE [status |-> "ok", j0_before |-> first_gt_r(lat_1d, ymin) - 1,
               j0_after |-> 0]
    ELSE [status |-> "ok", j0_before |-> 0,
          j0_after |-> float_ceil(RDiv(RSub(lat_1d[1], ymin), sose_res), up)]

north_window(lat_corners_1d, ymax) ==
    IF ymax = lat_corners_1d[Len(lat_corners_1d)]
    THEN [status |-> "ok", j1_before |-> Len(lat_corners_1d)]
    ELSE IF RLt(ymax, lat_corners_1d[Len(lat_corners_1d)])
    THEN [status |-> "ok",
          j1_before |-> first_gt_r(lat_corners_1d, ymax) + 1]
    ELSE [status |-> "exit", error |-> "not allowed to extend northward"]

Mut_depth_window(z, z_shallow, z_deep) ==
    LET k0_after  == IF z_shallow < z[1] THEN 0 ELSE 1
        k1_before == IF z_deep > z[Len(z)] THEN first_lt(z, z_deep) + 1
                     ELSE Len(z)
        k1_after  == k1_before + k0_after
    IN  [k0_before |-> 0, k0_after |-> k0_after, k1_before |-> k1_before,
         k1_after |-> k1_after,
         nz |-> IF z_deep < z[Len(z)] THEN k1_after + 1 ELSE k1_after]

depth_window(z, z_shallow, z_deep) ==
    LET k0_after  == IF z_shallow <= z[1] THEN 0 ELSE 1
        k1_before == IF z_deep > z[Len(z)] THEN first_lt(z, z_deep) + 1
                     ELSE Len(z)
        k1_after  == k1_before + k0_after
    IN  [k0_before |-> 0, k0_after |-> k0_after, k1_before |-> k1_before,
         k1_after |-> k1_after,
         nz |-> IF z_deep < z[Len(z)] THEN k1_after + 1 ELSE k1_after]

\* the longitude axes after lines 457-475: normalized, rotated about
\* i_split, the first corner lowered by 360 when positive; or the exit taken
sose_lon_axes(src, split, max_lon) ==
    LET lon0  == fix_lon_range(src.lon, Some(max_lon))
        lonc0 == fix_lon_range(src.lon_corners, Some(max_lon))
        i_split == IF split = 180 THEN first_lt(lon0, 0) ELSE 0
    IN  IF i_split < 0 THEN [status |-> "exit", error |-> "IndexError"]
        ELSE
        LET lon   == split_longitude(lon0, i_split)
            lonc1 == split_longitude(lonc0, i_split)
            lonc  == IF lonc1[1] > 0
                     THEN [lonc1 EXCEPT ![1] = lonc1[1] - 360] ELSE lonc1
        IN  IF ~all_diff_positive(lon) \/ ~all_diff_positive(lonc)
            THEN [status |-> "exit",
                  error |-> "longitude is not strictly increasing"]
            ELSE [status |-> "ok", i_split |-> i_split,
                  lon_1d |-> lon, lon_corners_1d |-> lonc]

\* lines 404-438: the window of the split, or the exit taken; model_grid is
\* None or the set of one Grid
sose_max_lon(model_grid, split) ==
    IF model_grid = None THEN [status |-> "ok", max_lon |-> 360]
    ELSE IF split = 180
    THEN IF amax(ValueOf(model_grid).lon_2d) > 180
         THEN [status |-> "exit",
               error |-> "split=180 does not match model grid"]
         ELSE [status |-> "ok", max_lon |-> 180]
    ELSE IF split = 0
    THEN IF amin(ValueOf(model_grid).lon_2d) < 0
         THEN [status |-> "exit",
               error |-> "split=0 does not match model grid"]
         ELSE [status |-> "ok", max_lon |-> 360]
    ELSE [status |-> "exit", error |-> "split must be 180 or 0"]

\* lines 582-599: the trimmed and extended axes for the windows w
sose_new_axes(a, src, mg, w) ==
    LET extend(first) ==
            [m \in 1..w.j0_after |->
                RAdd(RMul(R(-1 * ((w.j0_after - m) + 1)), sose_res), first)]
        z_above == [n \in 1..w.k0_after |-> 0]
        z_below == [n \in 1..(w.nz - w.k1_after) |->
                       2 * mg.z[Len(mg.z)] - mg.z[Len(mg.z) - 1]]
    IN  [lon_1d |-> PySlice(a.lon_1d, w.i0_before, w.i1_before),
         lon_corners_1d |->
             PySlice(a.lon_corners_1d, w.i0_before, w.i1_before),
         lat_1d |-> extend(src.lat[w.j0_before + 1])
                       \o PySlice(src.lat, w.j0_before, w.j1_before),
         lat_corners_1d |-> extend(src.lat_corners[w.j0_before + 1])
                       \o PySlice(src.lat_corners, w.j0_before, w.j1_before),
         z |-> z_above \o PySlice(src.z, w.k0_before, w.k1_before) \o z_below,
         z_edges |-> z_above \o PySlice(src.z_edges, w.k0_before, w.k1_before)
                        \o z_below]

\* lines 601-619: the first bound that is not cleared, or "ok"
sose_bounds_check(n, xmin, xmax, ymin, ymax, z_shallow, z_deep) ==
    IF n.lon_corners_1d[1] > xmin THEN "western bound not cleared"
    ELSE IF n.lon_corners_1d[Len(n.lon_corners_1d)] < xmax
    THEN "eastern bound not cleared"
    ELSE IF RGt(n.lat_corners_1d[1], ymin) THEN "southern bound not cleared"
    ELSE IF RLt(n.lat_corners_1d[Len(n.lat_corners_1d)], ymax)
    THEN "northern bound not cleared"
    ELSE IF n.z[1] < z_shallow THEN "shallow bound not cleared"
    ELSE IF n.z[Len(n.z)] > z_deep THEN "deep bound not cleared"
    ELSE "ok"

\* SOSEGrid.__init__ up to line 626: the attributes set so far, or the exit
\* taken.  model_grid.z[-2] (line 597) raises IndexError for a model grid of
\* one level.
SOSEAxes(src, model_grid, split, up) ==
    IF src.path = "bad"
    THEN [status |-> "exit",
          error |-> "is neither a NetCDF file nor a directory"]
    ELSE
    LET ml == sose_max_lon(model_grid, split)
    IN  IF ml.status = "exit" THEN ml
    ELSE
    LET a == sose_lon_axes(src, split, ml.max_lon)
    IN  IF a.status = "exit" THEN a
    ELSE IF model_grid = None
    THEN [status |-> "ok", class |-> "SOSEGrid", split |-> split,
          trim_extend |-> FALSE, i_split |-> a.i_split,
          lon_1d |-> a.lon_1d, lon_corners_1d |-> a.lon_corners_1d,
          lat_1d |-> src.lat, lat_corners_1d |-> src.lat_corners,
          z |-> src.z, z_edges |-> src.z_edges,
          nx |-> Len(a.lon_1d), ny |-> Len(src.lat), nz |-> Len(src.z)]
    ELSE
    LET mg   == ValueOf(model_grid)
        xmin == amin(mg.lon_corners_2d)
        xmax == amax(mg.lon_2d)
        ymin == amin_r(mg.lat_corners_2d)
        ymax == amax_r(mg.lat_2d)
        z_shallow == mg.z[1]
        z_deep    == mg.z[Len(mg.z)]
        west  == west_window(a.lon_1d, xmin)
        east  == east_window(a.lon_corners_1d, xmax)
        south == south_window(src.lat, ymin, up)
        north == north_window(src.lat_corners, ymax)
    IN  IF west.status = "exit" THEN west
        ELSE IF east.status = "exit" THEN east
        ELSE IF south.status = "exit" THEN south
        ELSE IF north.status = "exit" THEN north
        ELSE IF Len(mg.z) < 2 THEN [status |-> "exit", error |-> "IndexError"]
        ELSE
        LET d == depth_window(src.z, z_shallow, z_deep)
            i1_after == east.i1_before - west.i0_before
            j1_after == (north.j1_before - south.j0_before) + south.j0_after
            w == [i0_before |-> west.i0_before, i0_after |-> 0,
                  i1_before |-> east.i1_before, i1_after |-> i1_after,
                  j0_before |-> south.j0_before, j0_after |-> south.j0_after,
                  j1_before |-> north.j1_before, j1_after |-> j1_after,
                  nx |-> i1_after, ny |-> j1_after] @@ d
            n == sose_new_axes(a, src, mg, w)
            c == sose_bounds_check(n, xmin, xmax, ymin, ymax, z_shallow, z_deep)
        IN  IF c # "ok" THEN [status |-> "exit", error |-> c]
            ELSE [status |-> "ok", class |-> "SOSEGrid", split |-> split,
                  trim_extend |-> TRUE, i_split |-> a.i_split] @@ w @@ n

-----------------------------------------------------------------------------
(* grid.py: SOSEGrid, the fields (lines 628-704) *)

\* n lies in the slice lo:hi (indices of the source counted from 0, n from 1)
Mut_in_slice(n, lo, hi) == lo + 1 < n /\ n <= hi

in_slice(n, lo, hi) == lo < n /\ n <= hi

\* lines 691-700 for a field of the dimensions 'z', 'xy' and 'xyz': the array
\* of the new shape holding fill_value, then the assignment of the native
\* block, rotated by split_longitude when the field has a longitude
read_z(self, data_orig, fill_value) ==
    [k \in 1..self.nz |->
        IF in_slice(k, self.k0_after, self.k1_after)
        THEN data_orig[(k - self.k0_after) + self.k0_before]
        ELSE fill_value]

read_xy(self, data_orig, fill_value) ==
    [j \in 1..self.ny |-> [i \in 1..self.nx |->
        IF /\ in_slice(j, self.j0_after, self.j1_after)
           /\ in_slice(i, self.i0_after, self.i1_after)
        THEN split_longitude(
                 data_orig[(j - self.j0_after) + self.j0_before],
                 self.i_split)[(i - self.i0_after) + self.i0_before]
        ELSE fill_value]]

read_xyz(self, data_orig, fill_value) ==
    [k \in 1..self.nz |-> [j \in 1..self.ny |-> [i \in 1..self.nx |->
        IF /\ in_slice(k, self.k0_after, self.k1_after)
           /\ in_slice(j, self.j0_after, self.j1_after)
           /\ in_slice(i, self.i0_after, self.i1_after)
        THEN split_longitude(
                 data_orig[(k - self.k0_after) + self.k0_before]
                          [(j - self.j0_after) + self.j0_before],
                 self.i_split)[(i - self.i0_after) + self.i0_before]
        ELSE fill_value]]]

\* the number of dimensions the slices of lines 695-700 index
tag_rank(dimensions) ==
    CASE dimensions = "z" -> 1
      [] dimensions = "xy" -> 2
      [] dimensions \in {"xyt", "xyz"} -> 3
      [] dimensions = "xyzt" -> 4

\* read_field after the file is read: data_orig is the array read, rank its
\* number of dimensions.  Without trimming the array is returned as read; a
\* 'z' field is not rotated; the leading dimension of a 't' field is time.
\* Indexing an array with more slices than it has dimensions raises
\* IndexError; assigning a block of more dimensions than the target has
\* raises ValueError.
read_field(self, data_orig, rank, dimensions, fill_value) ==
    IF ~self.trim_extend THEN [status |-> "ok", data |-> data_orig]
    ELSE IF rank < tag_rank(dimensions)
    THEN [status |-> "IndexError", data |-> <<>>]
    ELSE IF rank > tag_rank(dimensions)
    THEN [status |-> "ValueError", data |-> <<>>]
    ELSE [status |-> "ok",
          data |->
              CASE dimensions = "z" -> read_z(self, data_orig, fill_value)
                [] dimensions = "xy" -> read_xy(self, data_orig, fill_value)
                [] dimensions = "xyz" -> read_xyz(self, data_orig, fill_value)
                [] dimensions = "xyt" ->
                      [t \in 1..Len(data_orig) |->
                          read_xy(self, data_orig[t], fill_value)]
                [] dimensions = "xyzt" ->
                      [t \in 1..Len(data_orig) |->
                          read_xyz(self, data_orig[t], fill_value)]]

\* lines 628-640: the object with its fields read, or the exit taken.  From a
\* directory the 2D cell areas are read with the dimensions 'xyz'.
SOSEFields(self, src) ==
    LET hfac   == read_field(self, src.hfac, 3, "xyz", R(0))
        hfac_w == read_field(self, src.hfac_w, 3, "xyz", R(0))
        hfac_s == read_field(self, src.hfac_s, 3, "xyz", R(0))
        dA     == read_field(self, src.dA, 2,
                             IF src.path = "nc" THEN "xy" ELSE "xyz", 0)
        dz     == read_field(self, src.dz, 1, "z", 0)
    IN  IF dA.status # "ok" THEN [status |-> "exit", error |-> "IndexError"]
        ELSE [hfac |-> hfac.data, hfac_w |-> hfac_w.data,
              hfac_s |-> hfac_s.data, dA |-> dA.data, dz |-> dz.data] @@ self

\* lines 641-657: the finished object, or the exit taken
SOSEFinish(self) ==
    LET g     == <<self.nx, self.ny, self.nz>>
        dA3   == xy_to_xyz(self.dA, g)
        dz3   == z_to_xyz(self.dz, g)
        lon2  == [j \in 1..Len(self.lat_1d) |-> self.lon_1d]
        lat2  == [j \in 1..Len(self.lat_1d) |->
                     [i \in 1..Len(self.lon_1d) |-> self.lat_1d[j]]]
        lonc2 == [j \in 1..Len(self.lat_corners_1d) |-> self.lon_corners_1d]
        latc2 == [j \in 1..Len(self.lat_corners_1d) |->
                     [i \in 1..Len(self.lon_corners_1d) |->
                         self.lat_corners_1d[j]]]
        bathy == bdry_from_hfac("bathy", self.hfac, self.z_edges)
        land  == build_land_mask(self.hfac)
    IN  IF bathy.status # "ok" THEN [status |-> "exit", error |-> "IndexError"]
        ELSE [dV |-> [k \in 1..self.nz |-> [j \in 1..self.ny |->
                         [i \in 1..self.nx |->
                  RMul(RMul(R(dA3[k][j][i]), R(dz3[k][j][i])),
                       self.hfac[k][j][i])]]],
              lon_2d |-> lon2, lat_2d |-> lat2,
              lon_corners_2d |-> lonc2, lat_corners_2d |-> latc2,
              bathy |-> bathy.bdry,
              land_mask |-> land,
              land_mask_u |-> build_land_mask(self.hfac_w),
              land_mask_v |-> build_land_mask(self.hfac_s),
              sws_shelf_mask |->
                  build_sws_shelf_mask(Some(self.split), land,
                      [j \in 1..Len(land) |-> [i \in 1..Len(land[1]) |-> FALSE]],
                      lon2, lat2, bathy.bdry)] @@ self

-----------------------------------------------------------------------------
(* Inputs of the geometry engine *)

\* cell thicknesses (m) the vertical grids are built from
DzVals == {20, 40}

RECURSIVE SumTo(_, _)
SumTo(s, n) == IF n = 0 THEN 0 ELSE s[n] + SumTo(s, n - 1)

\* interface depths of a grid with the given thicknesses, top interface at 0
EdgesOf(dzs) == [k \in 1..(Len(dzs) + 1) |-> -SumTo(dzs, k - 1)]

ZGrids == UNION {{EdgesOf(dzs) : dzs \in [1..nz -> DzVals]} : nz \in 1..MaxNz}

\* distances of a boundary from the top of the cell it lies in
Offsets(dz) == {o \in {0, 1, 10, dz - 10, dz - 1} : o >= 0 /\ o < dz}

\* boundary depths tried in a single column: in every cell, on every
\* interface, and one below the deepest interface
DepthsOf(z) ==
    UNION {{z[k] - o : o \in Offsets(z[k] - z[k+1])} : k \in 1..(Len(z) - 1)}
    \cup {z[Len(z)], z[Len(z)] - 10}

\* (hFacMin, hFacMinDr): floor disabled, fractional floor only, both floors
FloorParams == {<<R(0), R(0)>>, <<Rat(1, 10), R(0)>>, <<Rat(1, 10), R(20)>>}
GTypes      == {"t", "u", "v"}
Options     == {"bathy", "draft", "other"}

\* (bathy, draft) of the columns of a multi-column array, and its grid
ColTypes   == {<<-58, -2>>, <<-39, -30>>, <<-20, -10>>, <<-10, -10>>}
ArrayEdges == <<0, -20, -40, -60>>
ArrayFloorParams == {<<R(0), R(0)>>, <<Rat(1, 10), R(20)>>}

Shapes == {s \in (1..MaxCells) \X (1..MaxCells) :
              s[1] * s[2] <= MaxCells /\ s[1] * s[2] >= 2}

\* partial-cell fractions found in a grid file
HfacVals == {R(0), Rat(1, 2), R(1)}

FileHfacs ==
    UNION {{[k \in 1..nz |-> <<(<<c[k]>>)>>] : c \in [1..nz -> HfacVals]} :
           nz \in 1..MaxNz}

-----------------------------------------------------------------------------
(* State machine of the geometry engine: one call at a time *)

NoVal == <<>>

Init ==
    /\ call = "idle"
    /\ args = NoVal
    /\ ret = NoVal
    /\ grid = NoVal

\* what a call of calc_hfac leaves: its arguments, the local variables bathy
\* and draft after the gtype branch, and the returned array
DoCalcHfac(bathy, draft, z, m, r, g) ==
    /\ args' = [bathy |-> bathy, draft |-> draft, z_edges |-> z,
                hFacMin |-> m, hFacMinDr |-> r, gtype |-> g]
    /\ ret' = [hfac |-> calc_hfac(bathy, draft, z, m, r, g),
               bathy |-> bathy_g(bathy, g),
               draft |-> draft_g(bathy, draft, g)]
    /\ call' = "calc_hfac"
    /\ UNCHANGED grid

\* what a call of model_bdry leaves: its arguments, the local variable hfac
\* and the result of bdry_from_hfac
DoModelBdry(o, bathy, draft, z, m, r) ==
    /\ args' = [option |-> o, bathy |-> bathy, draft |-> draft, z_edges |-> z,
                hFacMin |-> m, hFacMinDr |-> r]
    /\ ret' = [hfac |-> calc_hfac(bathy, draft, z, m, r, "t")]
              @@ model_bdry(o, bathy, draft, z, m, r)
    /\ call' = "model_bdry"
    /\ UNCHANGED grid

\* calc_hfac on a single column of the tracer grid
CalcHfacColumn ==
    /\ call = "idle"
    /\ \E z \in ZGrids : \E b \in DepthsOf(z), d \in DepthsOf(z),
          p \in FloorParams :
          DoCalcHfac(<<(<<b>>)>>, <<(<<d>>)>>, z, p[1], p[2], "t")

\* calc_hfac on an array of several columns
CalcHfacArray ==
    /\ call = "idle"
    /\ \E s \in Shapes : \E c \in [1..s[1] -> [1..s[2] -> ColTypes]],
          p \in ArrayFloorParams, g \in GTypes :
          DoCalcHfac([j \in 1..s[1] |-> [i \in 1..s[2] |-> c[j][i][1]]],
                     [j \in 1..s[1] |-> [i \in 1..s[2] |-> c[j][i][2]]],
                     ArrayEdges, p[1], p[2], g)

\* bdry_from_hfac on the partial-cell fractions of a grid file
BdryFromHfacCall ==
    /\ call = "idle"
    /\ \E h \in FileHfacs, z \in ZGrids, o \in Options :
          /\ Len(z) = Len(h) + 1
          /\ args' = [option |-> o, hfac |-> h, z_edges |-> z]
          /\ ret' = bdry_from_hfac(o, h, z)
    /\ call' = "bdry_from_hfac"
    /\ UNCHANGED grid

ModelBdryColumn ==
    /\ call = "idle"
    /\ \E z \in ZGrids : \E b \in DepthsOf(z), d \in DepthsOf(z),
          p \in FloorParams, o \in {"bathy", "draft"} :
          DoModelBdry(o, <<(<<b>>)>>, <<(<<d>>)>>, z, p[1], p[2])

ModelBdryArray ==
    /\ call = "idle"
    /\ \E s \in Shapes : \E c \in [1..s[1] -> [1..s[2] -> ColTypes]],
          p \in ArrayFloorParams, o \in Options :
          DoModelBdry(o, [j \in 1..s[1] |-> [i \in 1..s[2] |-> c[j][i][1]]],
                      [j \in 1..s[1] |-> [i \in 1..s[2] |-> c[j][i][2]]],
                      ArrayEdges, p[1], p[2])

\* the call returns; its arguments and result go out of scope
Return ==
    /\ call \notin {"idle", "SOSEGrid.axes", "SOSEGrid.fields"}
    /\ call' = "idle"
    /\ args' = NoVal
    /\ ret' = NoVal
    /\ UNCHANGED grid

NextHfac ==
    \/ CalcHfacColumn
    \/ CalcHfacArray
    \/ BdryFromHfacCall
    \/ ModelBdryColumn
    \/ ModelBdryArray
    \/ Return

SpecHfac == Init /\ [][NextHfac]_vars

-----------------------------------------------------------------------------
(* Inputs of fix_lon_range and of Grid *)

\* longitudes given directly to fix_lon_range (degrees)
LonVals == {90 * n : n \in -8..10}

\* max_lon: None, the two canonical windows, and another window
MaxLons == {None, Some(180), Some(360), Some(0)}

\* how a file stores a longitude: as it is, wrapped into [0, 360), or wrapped
\* into [-180, 180)
Stored(x, conv) ==
    IF conv = "0to360" THEN x % 360
    ELSE IF conv = "pm180" THEN ((x + 180) % 360) - 180
    ELSE x

\* a regular axis of n cells 20 degrees wide: centres from x0, corners half a
\* cell to the west
CentreAxis(x0, n, conv) == [i \in 1..n |-> Stored(x0 + 20 * (i - 1), conv)]
CornerAxis(x0, n, conv) == [i \in 1..n |-> Stored(x0 - 10 + 20 * (i - 1), conv)]

LonStarts == {-190, -185, -175, -60, -10, 150, 170, 185, 350, 530}

\* the vertical grid and the columns of partial-cell fractions of a grid file
GridEdges == <<0, -20, -40>>
ColKinds  == [1..(Len(GridEdges) - 1) -> HfacVals]

\* the array (one row) whose columns are c
HfacOf(c) ==
    [k \in 1..Len(c[1]) |-> <<[i \in 1..Len(c) |-> c[i][k]]>>]

\* two rearrangements of the column kinds, each one to one
Flip(col)  == [k \in 1..Len(col) |-> col[Len(col) + 1 - k]]
Cycle(col) == [k \in 1..Len(col) |->
                 IF k > 1 THEN col[k]
                 ELSE IF col[k] = R(0) THEN Rat(1, 2)
                 ELSE IF col[k] = Rat(1, 2) THEN R(1) ELSE R(0)]

\* how the arrays are read: a NetCDF file holding 1D or 2D coordinates, or a
\* directory of binary files holding 2D ones
Readers == {<<"nc", 1>>, <<"nc", 2>>, <<"dir", 2>>}

\* a grid of one row at latitude lat (corner latitude latc)
SourceAt(rd, lon, corners, lat, latc, z_edges, c) ==
    [path |-> rd[1], ndim |-> rd[2], lon |-> lon, lon_corners |-> corners,
     lat |-> <<lat>>, lat_corners |-> <<latc>>,
     z |-> [k \in 1..(Len(z_edges) - 1) |->
               (z_edges[k] + z_edges[k + 1]) \div 2],
     z_edges |-> z_edges, hfac |-> HfacOf(c),
     hfac_w |-> HfacOf([i \in 1..Len(c) |-> Flip(c[i])]),
     hfac_s |-> HfacOf([i \in 1..Len(c) |-> Cycle(c[i])])]

Source(rd, lon, corners, c) ==
    SourceAt(rd, lon, corners, R(-75), Rat(-751, 10), GridEdges, c)

\* a path that is neither a NetCDF file nor a directory
BadSource == [path |-> "bad"]

\* sources with every longitude axis and open-ocean columns
LonSources ==
    {Source(rd, CentreAxis(x[1], x[2], x[3]), CornerAxis(x[1], x[2], x[3]),
            [i \in 1..x[2] |-> [k \in 1..(Len(GridEdges) - 1) |-> R(1)]]) :
        <<rd, x>> \in Readers \X (LonStarts \X (2..MaxNx)
                                    \X {"asis", "0to360", "pm180"})}
    \cup {BadSource}

\* sources with every array of column kinds and one longitude axis
MaskSources ==
    UNION {{Source(rd, CentreAxis(-60, n, "asis"), CornerAxis(-60, n, "asis"), c) :
               <<rd, c>> \in {<<"nc", 1>>, <<"dir", 2>>} \X [1..n -> ColKinds]} :
           n \in 1..MaxPts}

\* grid files of the Weddell Sea: a deeper vertical grid, columns that are
\* land, open and deep, open and shallow, open with the bed at the shelf
\* threshold, and ice shelf
RegionEdges == <<0, -1000, -2000>>
RegionCols ==
    {<<R(0), R(0)>>, <<R(1), R(1)>>, <<R(1), R(0)>>, <<R(1), Rat(1, 4)>>,
     <<Rat(1, 2), R(1)>>}

\* centre latitudes on and beside the bounds of the region boxes; the corner
\* latitude lies a tenth of a degree to the south
RegionLats ==
    {Rat(-7440, 100), Rat(-7430, 100), Rat(-7785, 100), Rat(-7780, 100),
     R(-84), R(-72)}
LatCorner(lat) == RSub(lat, Rat(1, 10))

\* first centre longitudes putting centres or corners on and beside the bounds
RegionStarts == {-85, -70, -45, -35, -30, -19}

RegionSources ==
    UNION {{SourceAt(rd, CentreAxis(x0, n, "asis"), CornerAxis(x0, n, "asis"),
                     lat, LatCorner(lat), RegionEdges, c) :
               <<rd, x0, lat, c>> \in {<<"nc", 1>>} \X RegionStarts
                                       \X RegionLats \X [1..n -> RegionCols]} :
           n \in 1..MaxPts}

-----------------------------------------------------------------------------
(* State machine of fix_lon_range and of Grid *)

FixLonRangeCall ==
    /\ call = "idle"
    /\ grid = NoVal
    /\ \E n \in 1..MaxLonLen : \E lon \in [1..n -> LonVals], m \in MaxLons :
          /\ args' = [lon |-> lon, max_lon |-> m]
          /\ ret' = [lon |-> fix_lon_range(lon, m)]
    /\ call' = "fix_lon_range"
    /\ UNCHANGED grid

\* grid = Grid(path, x_is_lon, max_lon): the object, or nothing on an exit
DoGridInit(src, x_is_lon, max_lon) ==
    LET r == GridInit(src, x_is_lon, max_lon)
    IN  /\ args' = [src |-> src, x_is_lon |-> x_is_lon, max_lon |-> max_lon]
        /\ ret' = IF r.status = "ok" THEN [status |-> "ok"] ELSE r
        /\ grid' = IF r.status = "ok" THEN r ELSE NoVal
        /\ call' = "Grid"

GridNewLon ==
    /\ call = "idle"
    /\ grid = NoVal
    /\ \E src \in LonSources, x \in BOOLEAN, m \in MaxLons :
          DoGridInit(src, x, m)

GridNewMask ==
    /\ call = "idle"
    /\ grid = NoVal
    /\ \E src \in MaskSources : DoGridInit(src, TRUE, None)

GridCheckSplitCall ==
    /\ call = "idle"
    /\ grid = NoVal
    /\ \E src \in LonSources, split \in {180, 0, 90} :
          LET r == grid_check_split(src, split)
          IN  /\ args' = [src |-> src, split |-> split]
              /\ ret' = IF r.status = "ok" THEN [status |-> "ok"] ELSE r
              /\ grid' = IF r.status = "ok" THEN r ELSE NoVal
    /\ call' = "grid_check_split"

GetOpenOceanMaskCall ==
    /\ call = "idle"
    /\ grid # NoVal
    /\ \E g \in {"t", "u", "v", "psi", "w"} :
          /\ args' = [gtype |-> g]
          /\ ret' = get_open_ocean_mask(grid, g)
    /\ call' = "get_open_ocean_mask"
    /\ UNCHANGED grid

\* the program drops its Grid
Discard ==
    /\ call = "idle"
    /\ grid # NoVal
    /\ grid' = NoVal
    /\ UNCHANGED <<call, args, ret>>

NextLon ==
    \/ FixLonRangeCall
    \/ GridNewLon
    \/ GridCheckSplitCall
    \/ Return
    \/ Discard

SpecLon == Init /\ [][NextLon]_vars

NextMask ==
    \/ GridNewMask
    \/ GetOpenOceanMaskCall
    \/ Return
    \/ Discard

SpecMask == Init /\ [][NextMask]_vars

\* grids of two points for the accessors: ice shelf points in the FRIS boxes
\* and every arrangement of four column kinds: land, an ice shelf cavity, open
\* water of one level, and a column whose one wet cell is a quarter cell
AccessSources ==
    {SourceAt(rd, CentreAxis(-60, 2, "asis"), CornerAxis(-60, 2, "asis"),
              R(-80), LatCorner(R(-80)), RegionEdges, c) :
        <<rd, c>> \in Readers \X [1..2 -> {<<R(0), R(0)>>, <<Rat(1, 2), R(1)>>,
                                           <<R(1), R(0)>>,
                                           <<Rat(1, 4), R(0)>>}]}

\* the grid types and dimensions a caller may pass
AccessGTypes == {"t", "u", "v", "psi", "w", "x"}
AccessDims == {1, 2, 3}

GridNewAccess ==
    /\ call = "idle"
    /\ grid = NoVal
    /\ \E src \in AccessSources, m \in {None, Some(360)} :
          DoGridInit(src, TRUE, m)

GetLonLatCall ==
    /\ call = "idle"
    /\ grid # NoVal
    /\ \E g \in AccessGTypes, d \in AccessDims :
          /\ args' = [gtype |-> g, dim |-> d]
          /\ ret' = get_lon_lat(grid, g, d)
    /\ call' = "get_lon_lat"
    /\ UNCHANGED grid

GetHfacCall ==
    /\ call = "idle"
    /\ grid # NoVal
    /\ \E g \in AccessGTypes :
          /\ args' = [gtype |-> g]
          /\ ret' = get_hfac(grid, g)
    /\ call' = "get_hfac"
    /\ UNCHANGED grid

GetLandMaskCall ==
    /\ call = "idle"
    /\ grid # NoVal
    /\ \E g \in AccessGTypes :
          /\ args' = [gtype |-> g]
          /\ ret' = get_land_mask(grid, g)
    /\ call' = "get_land_mask"
    /\ UNCHANGED grid

GetIceMaskCall ==
    /\ call = "idle"
    /\ grid # NoVal
    /\ \E g \in AccessGTypes :
          /\ args' = [gtype |-> g]
          /\ ret' = get_ice_mask(grid, g)
    /\ call' = "get_ice_mask"
    /\ UNCHANGED grid

GetFrisMaskCall ==
    /\ call = "idle"
    /\ grid # NoVal
    /\ \E g \in AccessGTypes :
          /\ args' = [gtype |-> g]
          /\ ret' = get_fris_mask(grid, g)
    /\ call' = "get_fris_mask"
    /\ UNCHANGED grid

GetBiMaskCall ==
    /\ call = "idle"
    /\ grid # NoVal
    /\ \E g \in AccessGTypes :
          /\ args' = [gtype |-> g]
          /\ ret' = get_bi_mask(grid, g)
    /\ call' = "get_bi_mask"
    /\ UNCHANGED grid

\* what neighbours() may report for a grid of ny rows and nx columns: a
\* neighbour everywhere, nowhere, or at every other point
NeighbourFlags(g) ==
    {[j \in 1..g.ny |-> [i \in 1..g.nx |-> (i + j) % 2 \in on] ] :
        on \in {{0, 1}, {}, {0}, {1}}}

Mut_GetCoastMaskCall ==
    /\ call = "idle"
    /\ grid # NoVal
    /\ \E g \in AccessGTypes, ib \in BOOLEAN, nb \in NeighbourFlags(grid) :
          LET r == get_coast_mask(grid, g, ib, nb)
          IN  /\ args' = [gtype |-> g, ignore_iceberg |-> ib]
              /\ ret' = r
              /\ grid' = IF r.status = "ok"
                         THEN [grid EXCEPT !.land_mask = r.value]
                         ELSE grid
    /\ call' = "get_coast_mask"

GetCoastMaskCall ==
    /\ call = "idle"
    /\ grid # NoVal
    /\ \E g \in AccessGTypes, ib \in BOOLEAN, nb \in NeighbourFlags(grid) :
          /\ args' = [gtype |-> g, ignore_iceberg |-> ib]
          /\ ret' = get_coast_mask(grid, g, ib, nb)
    /\ call' = "get_coast_mask"
    /\ UNCHANGED grid

NextAccess ==
    \/ GridNewAccess
    \/ GetLonLatCall
    \/ GetHfacCall
    \/ GetLandMaskCall
    \/ GetIceMaskCall
    \/ GetFrisMaskCall
    \/ Return
    \/ Discard

SpecAccess == Init /\ [][NextAccess]_vars

GridNewRegion ==
    /\ call = "idle"
    /\ grid = NoVal
    /\ \E src \in RegionSources, m \in {Some(180), Some(360)} :
          DoGridInit(src, TRUE, m)

NextRegion ==
    \/ GridNewRegion
    \/ Return
    \/ Discard

SpecRegion == Init /\ [][NextRegion]_vars

-----------------------------------------------------------------------------
(* State machine of SOSEGrid: the constructor in three steps *)

\* the native grid: SoseNx columns around the globe stored in [0, 360), SoseNy
\* rows sose_res apart from SoseLat0, corners half a cell to the west and
\* south, three levels; hfac and the cell areas name the native column
SoseNx == 6
SoseNy == 3
SoseDx == 360 \div SoseNx
SoseLat0 == R(-78)
SoseZ == <<-5, -15, -30>>
SoseEdges == <<0, -10, -20, -40>>
SoseStarts == {0, 10, 30}

SoseSource(path, x0) ==
    LET col == [i \in 1..SoseNx |-> Rat(i, SoseNx)]
        f3  == [k \in 1..Len(SoseZ) |-> [j \in 1..SoseNy |-> col]]
    IN  [path |-> path,
         lon |-> [i \in 1..SoseNx |-> (x0 + SoseDx * (i - 1)) % 360],
         lon_corners |->
             [i \in 1..SoseNx |->
                 ((x0 - (SoseDx \div 2)) + SoseDx * (i - 1)) % 360],
         lat |-> [j \in 1..SoseNy |-> RAdd(SoseLat0, RMul(R(j - 1), sose_res))],
         lat_corners |->
             [j \in 1..SoseNy |->
                 RSub(RAdd(SoseLat0, RMul(R(j - 1), sose_res)), Rat(1, 12))],
         z |-> SoseZ, z_edges |-> SoseEdges,
         hfac |-> f3, hfac_w |-> f3, hfac_s |-> f3,
         dA |-> [j \in 1..SoseNy |-> [i \in 1..SoseNx |-> i]],
         dz |-> dz_abs(SoseEdges)]

SoseSources ==
    {SoseSource("nc", x0) : x0 \in SoseStarts}
        \cup {SoseSource("dir", 10), BadSource}

\* the target domains: first centre longitude and number of columns, corner
\* and centre latitude of the row, interface depths
TargetLons ==
    {<<-170, 3>>, <<-100, 2>>, <<-50, 3>>, <<0, 2>>, <<10, 3>>, <<70, 2>>,
     <<250, 2>>, <<260, 1>>, <<260, 2>>, <<320, 2>>}
TargetLats ==
    {<<R(-78), Rat(-779, 10)>>, <<Rat(-778, 10), Rat(-7775, 100)>>,
     <<Rat(-235, 3), R(-78)>>, <<Rat(-7825, 100), Rat(-781, 10)>>,
     <<Rat(-779, 10), Rat(-775, 10)>>, <<Rat(-776, 10), Rat(-775, 10)>>}
TargetEdges ==
    {<<0, -10, -20, -40>>, <<0, -4, -26>>, <<0, -4, -12>>, <<0, -10, -30, -70>>,
     <<0, -4, -76>>, <<0, -20>>}

TargetSources ==
    {SourceAt(<<"nc", 1>>, CentreAxis(x[1], x[2], "asis"),
              CornerAxis(x[1], x[2], "asis"), y[2], y[1], e,
              [i \in 1..x[2] |-> [k \in 1..(Len(e) - 1) |-> R(1)]]) :
        <<x, y, e>> \in TargetLons \X TargetLats \X TargetEdges}

\* the values a caller passes as split
SoseSplits == {0, 180, 90}

\* model_grid = Grid(path, max_lon=m)
GridNewTarget ==
    /\ call = "idle"
    /\ grid = NoVal
    /\ \E src \in TargetSources, m \in {Some(180), Some(360)} :
          DoGridInit(src, TRUE, m)

\* SOSEGrid(path, model_grid, split) enters and runs to line 626; model_grid
\* is the program's Grid, or None when it has none.  ret holds the object
\* under construction.
SOSEGridAxes ==
    /\ call = "idle"
    /\ IF grid = NoVal THEN TRUE ELSE grid.class = "Grid"
    /\ \E src \in SoseSources, split \in SoseSplits, up \in BOOLEAN :
          LET model_grid == IF grid = NoVal THEN None ELSE Some(grid)
              r == SOSEAxes(src, model_grid, split, up)
          IN  /\ args' = [src |-> src, model_grid |-> model_grid,
                          split |-> split]
              /\ ret' = r
              /\ call' = IF r.status = "ok" THEN "SOSEGrid.axes"
                         ELSE "SOSEGrid"
    /\ UNCHANGED grid

\* lines 628-640
SOSEGridFields ==
    /\ call = "SOSEGrid.axes"
    /\ LET r == SOSEFields(ret, args.src)
       IN  /\ ret' = r
           /\ call' = IF r.status = "ok" THEN "SOSEGrid.fields"
                      ELSE "SOSEGrid"
    /\ UNCHANGED <<args, grid>>

\* lines 641-657: the constructor returns the object, or ends on an error
SOSEGridFinish ==
    /\ call = "SOSEGrid.fields"
    /\ LET r == SOSEFinish(ret)
       IN  /\ ret' = IF r.status = "ok" THEN [status |-> "ok"] ELSE r
           /\ grid' = IF r.status = "ok" THEN r ELSE grid
    /\ call' = "SOSEGrid"
    /\ UNCHANGED args

\* the native fields handed to read_field: every cell holds a number naming
\* its native time, level, row and column
NumTime == 2
ReadTags == {"z", "xy", "xyt", "xyz", "xyzt"}
FillValues == {-9999}

NativeField(dimensions) ==
    LET xy(t, k) == [j \in 1..SoseNy |-> [i \in 1..SoseNx |->
                        1000 * t + 100 * k + 10 * j + i]]
        xyz(t)   == [k \in 1..Len(SoseZ) |-> xy(t, k)]
    IN  CASE dimensions = "z" -> [k \in 1..Len(SoseZ) |-> 100 * k]
          [] dimensions = "xy" -> xy(0, 0)
          [] dimensions = "xyz" -> xyz(0)
          [] dimensions = "xyt" -> [t \in 1..NumTime |-> xy(t, 0)]
          [] dimensions = "xyzt" -> [t \in 1..NumTime |-> xyz(t)]

\* self.read_field(path, dimensions, fill_value=f) on the object as it stands
\* after line 626, which holds every attribute read_field reads (the
\* constructor's own reads at lines 630-640 are such calls)
ReadFieldUnderConstruction ==
    /\ call = "SOSEGrid.axes"
    /\ \E d \in ReadTags, f \in FillValues :
          /\ args' = [self |-> ret, dimensions |-> d,
                      data_orig |-> NativeField(d), fill_value |-> f]
          /\ ret' = read_field(ret, NativeField(d), tag_rank(d), d, f)
    /\ call' = "SOSEGrid.read_field"
    /\ UNCHANGED grid

\* grid.read_field(path, dimensions, fill_value=f) on the program's SOSEGrid
ReadFieldCall ==
    /\ call = "idle"
    /\ grid # NoVal
    /\ grid.class = "SOSEGrid"
    /\ \E d \in ReadTags, f \in FillValues :
          /\ args' = [dimensions |-> d, data_orig |-> NativeField(d),
                      fill_value |-> f]
          /\ ret' = read_field(grid, NativeField(d), tag_rank(d), d, f)
    /\ call' = "read_field"
    /\ UNCHANGED grid

NextSose ==
    \/ GridNewTarget
    \/ SOSEGridAxes
    \/ SOSEGridFields
    \/ SOSEGridFinish
    \/ ReadFieldUnderConstruction
    \/ ReadFieldCall
    \/ Return
    \/ Discard

SpecSose == Init /\ [][NextSose]_vars

-----------------------------------------------------------------------------
(* timeseries.py: calc_timeseries (lines 297-419) *)

\* the options with a timeseries function, and those that need no var_name
SeriesOptions ==
    {"ismr", "max", "avg_sfc", "int_sfc", "area_threshold", "avg_fris",
     "avg_sws_shelf", "avg_domain", "point_vavg", "wed_gyre_trans",
     "watermass", "volume", "transport_transect"}
NoVarNameOptions ==
    {"time", "ismr", "wed_gyre_trans", "watermass", "volume",
     "transport_transect"}

\* grid.py choose_grid: a Grid is built unless the caller passed a Grid object
\* (grid is None, a path, or a Grid object)
choose_grid_events(grid_arg) ==
    IF grid_arg = "Grid object" THEN <<>> ELSE <<"Grid">>

\* what the call does with one file after the first checks: the timeseries
\* function of the option reads the file, then netcdf_time reads its time axis
file_events(option) ==
    IF option = Some("time") THEN <<"netcdf_time">>
    ELSE <<"timeseries", "netcdf_time">>

RECURSIVE rest_events(_, _)
rest_events(option, n) ==
    IF n = 0 THEN <<>> ELSE file_events(option) \o rest_events(option, n - 1)

\* calc_timeseries: how the call ends, and in events the array work done
\* until then: "Grid" for a Grid built by choose_grid, "timeseries" for a
\* file read by a timeseries function, "netcdf_time" for a time axis read
calc_timeseries(a) ==
    LET exit(msg, ev) == [status |-> "exit", error |-> msg, events |-> ev]
        option == a.option
    IN  IF a.file_path.type \notin {"str", "list"}
        THEN exit("file_path must be a string or a list", <<>>)
        ELSE IF /\ option \notin {Some(o) : o \in NoVarNameOptions}
                /\ a.var_name = None
        THEN exit("must specify var_name", <<>>)
        ELSE IF /\ option = Some("point_vavg")
                /\ (a.lon0 = None \/ a.lat0 = None)
        THEN exit("must specify lon0 and lat0", <<>>)
        ELSE IF option = Some("area_threshold") /\ a.threshold = None
        THEN exit("must specify threshold", <<>>)
        ELSE IF /\ option = Some("transport_transect")
                /\ (a.point0 = None \/ a.point1 = None)
        THEN exit("must specify point0 and point1", <<>>)
        ELSE
        LET e1 == IF option # Some("time") THEN choose_grid_events(a.grid)
                  ELSE <<>>
        IN  IF /\ option = Some("avg_sws_shelf")
               /\ a.shelf_option \notin {"full", "inner", "outer"}
            THEN exit("invalid shelf_option", e1)
            ELSE IF option \notin {Some(o) : o \in SeriesOptions \cup {"time"}}
            THEN IF option = None
                 THEN [status |-> "TypeError", error |-> "TypeError",
                       events |-> e1]
                 ELSE exit("invalid option", e1)
            ELSE [status |-> "ok", error |-> "",
                  events |-> e1 \o file_events(option)
                      \o (IF a.file_path.type = "list"
                          THEN rest_events(option, a.file_path.len - 1)
                          ELSE <<>>)]

\* the arguments of the calls: one file, a list of two, or something else;
\* every option, one that does not exist and none; the keywords given or not
SeriesFilePaths ==
    {[type |-> "str", len |-> 1], [type |-> "list", len |-> 2],
     [type |-> "int", len |-> 0]}
SeriesArgOptions ==
    {None} \cup {Some(o) : o \in SeriesOptions \cup {"time", "bogus"}}
SeriesPairs == {<<None, None>>, <<Some(1), None>>, <<Some(1), Some(2)>>}

CalcTimeseriesCall ==
    /\ call = "idle"
    /\ \E fp \in SeriesFilePaths, o \in SeriesArgOptions,
          g \in {"None", "path", "Grid object"},
          v \in {None, Some("THETA")}, th \in {None, Some(0)},
          p \in SeriesPairs, so \in {"full", "inner", "outer", "middle"} :
          LET a == [file_path |-> fp, option |-> o, grid |-> g,
                    var_name |-> v, threshold |-> th,
                    lon0 |-> p[1], lat0 |-> p[2],
                    point0 |-> p[1], point1 |-> p[2], shelf_option |-> so]
          IN  /\ args' = a
              /\ ret' = calc_timeseries(a)
    /\ call' = "calc_timeseries"
    /\ UNCHANGED grid

NextSeries ==
    \/ CalcTimeseriesCall
    \/ Return

SpecSeries == Init /\ [][NextSeries]_vars

\* a program that builds a Grid or a SOSEGrid and then reads it through the
\* accessors
NextFrame ==
    \/ GridNewAccess
    \/ SOSEGridAxes
    \/ SOSEGridFields
    \/ SOSEGridFinish
    \/ GetLonLatCall
    \/ GetHfacCall
    \/ GetLandMaskCall
    \/ GetIceMaskCall
    \/ GetFrisMaskCall
    \/ GetOpenOceanMaskCall
    \/ GetBiMaskCall
    \/ GetCoastMaskCall
    \/ ReadFieldUnderConstruction
    \/ ReadFieldCall
    \/ Return
    \/ Discard

SpecFrame == Init /\ [][NextFrame]_vars

Next ==
    \/ NextHfac \/ NextLon \/ NextMask \/ NextRegion \/ NextAccess
    \/ NextSose \/ NextFrame \/ NextSeries

Spec == Init /\ [][Next]_vars

-----------------------------------------------------------------------------
(* Properties of the geometry engine *)

Ny(a) == Len(a)
Nx(a) == Len(a[1])
Points(a) == (1..Ny(a)) \X (1..Nx(a))

\* length of the overlap of [b, d] with the cell [zb, za]
Overlap(b, d, za, zb) == Max(0, Min(d, za) - Max(b, zb))

\* the boundaries at a u or v point, from the two adjacent tracer cells
RefBathy(bathy, g, j, i) ==
    IF g = "u" /\ i > 1 THEN Max(bathy[j][i-1], bathy[j][i])
    ELSE IF g = "v" /\ j > 1 THEN Max(bathy[j-1][i], bathy[j][i])
    ELSE bathy[j][i]

RefDraft(draft, g, j, i) ==
    IF g = "u" /\ i > 1 THEN Min(draft[j][i-1], draft[j][i])
    ELSE IF g = "v" /\ j > 1 THEN Min(draft[j-1][i], draft[j][i])
    ELSE draft[j][i]

\* C1: with hFacMin = 0 and hFacMinDr = 0, calc_hfac on the tracer grid
\* returns in every cell of every column with bathy <= draft the overlap of
\* [bathy, draft] with the cell, divided by the cell thickness.
C1_OverlapFraction ==
    (call = "calc_hfac" /\ args.gtype = "t"
        /\ args.hFacMin = R(0) /\ args.hFacMinDr = R(0)) =>
    \A q \in Points(args.bathy) : \A k \in 1..Len(ret.hfac) :
        LET b == args.bathy[q[1]][q[2]]
            d == args.draft[q[1]][q[2]]
            z == args.z_edges
        IN  b <= d =>
            ret.hfac[k][q[1]][q[2]] =
                Rat(Overlap(b, d, z[k], z[k+1]), z[k] - z[k+1])

\* a floor-free tracer-grid call whose cells show all four cases, each partial
\* one with a fraction strictly between 0 and 1
C1_Witness ==
    /\ call = "calc_hfac" /\ args.gtype = "t"
    /\ args.hFacMin = R(0) /\ args.hFacMinDr = R(0)
    /\ \A c \in {"open", "bottom", "top", "both"} :
        \E q \in Points(args.bathy) : \E k \in 1..Len(ret.hfac) :
            LET b  == args.bathy[q[1]][q[2]]
                d  == args.draft[q[1]][q[2]]
                za == args.z_edges[k]
                zb == args.z_edges[k+1]
                h  == ret.hfac[k][q[1]][q[2]]
            IN  /\ b < d
                /\ c = "open"   => zb >= b /\ za <= d /\ h = R(1)
                /\ c = "bottom" => zb < b /\ b < za /\ za <= d
                                   /\ h = Rat(za - b, za - zb)
                /\ c = "top"    => zb >= b /\ za > d /\ d > zb
                                   /\ h = Rat(d - zb, za - zb)
                /\ c = "both"   => zb < b /\ za > d /\ h = Rat(d - b, za - zb)

\* C2: with L = max(hFacMin, min(hFacMinDr/dz, 1)) and r the open fraction of
\* the cell, calc_hfac returns 0 when r < L/2, L when L/2 <= r < L, and r
\* when r >= L.
C2_MinimumFractionFloor ==
    call = "calc_hfac" =>
    \A q \in Points(args.bathy) : \A k \in 1..Len(ret.hfac) :
        LET b  == RefBathy(args.bathy, args.gtype, q[1], q[2])
            d  == Max(RefDraft(args.draft, args.gtype, q[1], q[2]), b)
            za == args.z_edges[k]
            zb == args.z_edges[k+1]
            r  == Rat(Overlap(b, d, za, zb), za - zb)
            m  == RDiv(args.hFacMinDr, R(za - zb))
            L  == RMax(args.hFacMin, IF RLt(m, R(1)) THEN m ELSE R(1))
            h  == ret.hfac[k][q[1]][q[2]]
        IN  (args.gtype = "t" => args.bathy[q[1]][q[2]] <= args.draft[q[1]][q[2]])
            => /\ RLt(RMul(R(2), r), L) => h = R(0)
               /\ (RLe(L, RMul(R(2), r)) /\ RLt(r, L)) => h = L
               /\ RLe(L, r) => h = r

\* a call in which one cell with 0 < r < L/2 is closed, one with
\* L/2 <= r < L is raised to L, and one with r >= L > 0 passes through
C2_Witness ==
    /\ call = "calc_hfac" /\ args.gtype = "t"
    /\ \A c \in {"closed", "raised", "kept"} :
        \E q \in Points(args.bathy) : \E k \in 1..Len(ret.hfac) :
            LET b  == args.bathy[q[1]][q[2]]
                d  == args.draft[q[1]][q[2]]
                za == args.z_edges[k]
                zb == args.z_edges[k+1]
                r  == Rat(Overlap(b, d, za, zb), za - zb)
                L  == hfac_limit(args.hFacMin, args.hFacMinDr, za - zb)
                h  == ret.hfac[k][q[1]][q[2]]
            IN  /\ b <= d
                /\ c = "closed" => RLt(R(0), r) /\ RLt(RMul(R(2), r), L)
                                   /\ h = R(0)
                /\ c = "raised" => RLe(L, RMul(R(2), r)) /\ RLt(r, L)
                                   /\ h = L /\ h # r
                /\ c = "kept"   => RLt(R(0), L) /\ RLe(L, r) /\ h = r

\* C3: every cell of the array calc_hfac returns (gtype t, u or v) has
\* 0 <= hfac <= 1, and every cell of a column whose water column is closed
\* (draft - bathy <= 0 at that point) has hfac = 0.
C3_HfacInUnitRangeAndClosedColumnsDry ==
    call = "calc_hfac" =>
    \A q \in Points(args.bathy) :
        LET b == RefBathy(args.bathy, args.gtype, q[1], q[2])
            d == RefDraft(args.draft, args.gtype, q[1], q[2])
        IN  \A k \in 1..Len(ret.hfac) :
                LET h == ret.hfac[k][q[1]][q[2]]
                IN  /\ RLe(R(0), h) /\ RLe(h, R(1))
                    /\ d - b <= 0 => h = R(0)

\* a u or v call with a point whose adjacent tracer cells give a negative
\* water column (closed after the re-clamp) beside a point with a wet cell
C3_Witness ==
    /\ call = "calc_hfac" /\ args.gtype \in {"u", "v"}
    /\ \E q \in Points(args.bathy) :
        /\ RefDraft(args.draft, args.gtype, q[1], q[2])
              < RefBathy(args.bathy, args.gtype, q[1], q[2])
        /\ args.bathy[q[1]][q[2]] < args.draft[q[1]][q[2]]
    /\ \E q \in Points(args.bathy) : \E k \in 1..Len(ret.hfac) :
        RLt(R(0), ret.hfac[k][q[1]][q[2]])

\* the levels of column q of hfac that are wet
WetLevels(hfac, q) == {k \in 1..Len(hfac) : hfac[k][q[1]][q[2]] # R(0)}

SetMax(S) == CHOOSE x \in S : \A y \in S : y <= x
SetMin(S) == CHOOSE x \in S : \A y \in S : x <= y

\* the thickest cell of a vertical grid
MaxDz(z) == SetMax({z[k] - z[k+1] : k \in 1..(Len(z) - 1)})

\* the cells of the grid a depth lies in (two when it is on an interface)
CellsOf(z, x) == {k \in 1..(Len(z) - 1) : RLe(R(z[k+1]), x) /\ RLe(x, R(z[k]))}

\* the columns the round trip is about: bathy <= draft <= 0 inside the grid
RoundTripColumns ==
    {q \in Points(args.bathy) :
        /\ args.bathy[q[1]][q[2]] <= args.draft[q[1]][q[2]]
        /\ args.draft[q[1]][q[2]] <= 0
        /\ args.bathy[q[1]][q[2]] >= args.z_edges[Len(args.z_edges)]}

\* the boundary given to model_bdry in column q
GivenBdry(q) ==
    IF args.option = "bathy" THEN args.bathy[q[1]][q[2]]
    ELSE args.draft[q[1]][q[2]]

\* C4 as stated: in every column with bathy <= draft <= 0 inside the grid the
\* boundary model_bdry returns is within the thickness of one cell (here even
\* the thickest cell of the grid) of the boundary it was given.
C4_Original_RoundTripWithinOneCell ==
    (call = "model_bdry" /\ ret.status = "ok") =>
    \A q \in RoundTripColumns :
        RLe(RAbs(RSub(ret.bdry[q[1]][q[2]], R(GivenBdry(q)))),
            R(MaxDz(args.z_edges)))

\* C4 amended: in every such column that keeps at least one wet cell the
\* returned boundary is within one cell thickness of the given one - the
\* thickness of the thicker of a cell holding the given boundary and a cell
\* holding the returned one; a column left with no wet cell gets 0.
C4_RoundTripWithinOneCellIfWet ==
    (call = "model_bdry" /\ ret.status = "ok") =>
    \A q \in RoundTripColumns :
        LET out == ret.bdry[q[1]][q[2]]
            z   == args.z_edges
        IN  IF WetLevels(ret.hfac, q) = {}
            THEN out = R(0)
            ELSE \E kin \in CellsOf(z, R(GivenBdry(q))), kout \in CellsOf(z, out) :
                    RLe(RAbs(RSub(out, R(GivenBdry(q)))),
                        R(Max(z[kin] - z[kin+1], z[kout] - z[kout+1])))

\* a round trip that moves a boundary: the cell holding the given bathymetry
\* is closed by the floor and the returned bathymetry lies in the cell above
C4_Witness ==
    /\ call = "model_bdry" /\ ret.status = "ok" /\ args.option = "bathy"
    /\ \E q \in RoundTripColumns :
        /\ WetLevels(ret.hfac, q) # {}
        /\ ret.bdry[q[1]][q[2]] # R(GivenBdry(q))
        /\ \E k \in 2..Len(ret.hfac) :
            /\ args.z_edges[k+1] < GivenBdry(q) /\ GivenBdry(q) < args.z_edges[k]
            /\ ret.hfac[k][q[1]][q[2]] = R(0)
            /\ RLt(R(args.z_edges[k]), ret.bdry[q[1]][q[2]])

\* C5: for 'bathy' the boundary of a column is z_edges[k] - dz[k]*hfac at its
\* deepest wet cell k, for 'draft' it is z_edges[k] - dz[k]*(1 - hfac) at its
\* shallowest wet cell k; a column with no wet cell gets exactly 0, never NaN.
C5_FirstWetCellDecides ==
    (call \in {"bdry_from_hfac", "model_bdry"} /\ ret.status = "ok") =>
    LET hf == IF call = "model_bdry" THEN ret.hfac ELSE args.hfac
        z  == args.z_edges
    IN  \A q \in Points(ret.bdry) :
            LET wet == WetLevels(hf, q)
                out == ret.bdry[q[1]][q[2]]
            IN  /\ ~isnan(out)
                /\ wet = {} => out = R(0)
                /\ (wet # {} /\ args.option = "bathy") =>
                      LET k == SetMax(wet)
                      IN  out = RSub(R(z[k]), RMul(R(z[k] - z[k+1]),
                                                   hf[k][q[1]][q[2]]))
                /\ (wet # {} /\ args.option = "draft") =>
                      LET k == SetMin(wet)
                      IN  out = RSub(R(z[k]),
                                     RMul(R(z[k] - z[k+1]),
                                          RSub(R(1), hf[k][q[1]][q[2]])))

\* a grid-file column with two partial wet cells separated by a dry one
C5_Witness ==
    /\ call = "bdry_from_hfac" /\ ret.status = "ok"
    /\ \E q \in Points(ret.bdry) :
        LET wet == WetLevels(args.hfac, q)
        IN  /\ Cardinality(wet) >= 2
            /\ \E k \in 1..Len(args.hfac) :
                  k \notin wet /\ SetMin(wet) < k /\ k < SetMax(wet)
            /\ args.hfac[SetMin(wet)][q[1]][q[2]] # R(1)
            /\ args.hfac[SetMax(wet)][q[1]][q[2]] # R(1)

\* C6: for gtype u (v) calc_hfac works on the bathymetry that is the maximum
\* and the draft that is the minimum of the two tracer cells adjacent in x
\* (y), the cell's own value in the first column (row), with the draft then
\* raised to the new bathymetry, so draft >= bathy at every u/v point, and
\* applies the tracer-grid algorithm to these.
C6_StaggeredBoundaries ==
    (call = "calc_hfac" /\ args.gtype \in {"u", "v"}) =>
    /\ \A q \in Points(args.bathy) :
        LET b == RefBathy(args.bathy, args.gtype, q[1], q[2])
            d == RefDraft(args.draft, args.gtype, q[1], q[2])
        IN  /\ ret.bathy[q[1]][q[2]] = b
            /\ ret.draft[q[1]][q[2]] = (IF d < b THEN b ELSE d)
            /\ ret.draft[q[1]][q[2]] >= ret.bathy[q[1]][q[2]]
    /\ ret.hfac = calc_hfac(ret.bathy, ret.draft, args.z_edges,
                            args.hFacMin, args.hFacMinDr, "t")

\* a u or v call where a point takes its bathymetry from one neighbour and
\* its draft from the other, and the re-clamp raises the draft
C6_Witness ==
    /\ call = "calc_hfac" /\ args.gtype \in {"u", "v"}
    /\ \E q \in Points(args.bathy) :
        /\ ret.bathy[q[1]][q[2]] # args.bathy[q[1]][q[2]]
        /\ RefDraft(args.draft, args.gtype, q[1], q[2]) = args.draft[q[1]][q[2]]
        /\ RefDraft(args.draft, args.gtype, q[1], q[2]) < ret.draft[q[1]][q[2]]

-----------------------------------------------------------------------------
(* Properties of fix_lon_range and of Grid *)

InWindow(x, m) == m - 360 <= x /\ x < m

StrictlyIncreasing(a) == \A i \in 1..(Len(a) - 1) : a[i] < a[i+1]

\* the value congruent to x modulo 360 in [m - 360, m)
Congruent(x, m) == ((x - (m - 360)) % 360) + (m - 360)

\* C7 as stated: every value, whatever its magnitude, ends in
\* [max_lon - 360, max_lon), shifted by exactly one of +360, -360, 0.
C7_Original_EveryValueIntoWindow ==
    (call = "fix_lon_range" /\ args.max_lon # None) =>
    \A i \in 1..Len(args.lon) :
        /\ InWindow(ret.lon[i], ValueOf(args.max_lon))
        /\ ret.lon[i] = Congruent(args.lon[i], ValueOf(args.max_lon))
        /\ ret.lon[i] - args.lon[i] \in {360, -360, 0}

\* What fix_lon_range does on C7's inputs: exactly one of +360, -360, 0 is
\* applied to every value; a value of [max_lon - 720, max_lon + 360) ends on
\* the value congruent to it in [max_lon - 360, max_lon), so an array already
\* in the window is returned unchanged; a value outside that range is moved
\* by one period only and stays outside the window.
C7_OneShiftIntoWindow ==
    (call = "fix_lon_range" /\ args.max_lon # None) =>
    \A i \in 1..Len(args.lon) :
        LET m == ValueOf(args.max_lon)
            x == args.lon[i]
            y == ret.lon[i]
        IN  /\ y - x \in {360, -360, 0}
            /\ (m - 720 <= x /\ x < m + 360) =>
                  InWindow(y, m) /\ y = Congruent(x, m)
            /\ InWindow(x, m) => y = x
            /\ x >= m + 360 => y = x - 360 /\ ~InWindow(y, m)
            /\ x < m - 720 => y = x + 360 /\ ~InWindow(y, m)

\* a call that brings one value down and another up into the window
C7_Witness ==
    /\ call = "fix_lon_range" /\ args.max_lon # None
    /\ \E i \in 1..Len(args.lon) :
          /\ ret.lon[i] = args.lon[i] - 360
          /\ InWindow(ret.lon[i], ValueOf(args.max_lon))
    /\ \E i \in 1..Len(args.lon) :
          /\ ret.lon[i] = args.lon[i] + 360
          /\ InWindow(ret.lon[i], ValueOf(args.max_lon))

\* C8: every Grid whose construction completes with x_is_lon=True has
\* strictly increasing lon_1d and lon_corners_1d inside the chosen window
\* (a source for which they are not ends construction with a fatal error).
C8_Original_AxesStrictlyIncreasing ==
    (grid # NoVal /\ grid.x_is_lon /\ grid.max_lon # None) =>
    /\ StrictlyIncreasing(grid.lon_1d)
    /\ StrictlyIncreasing(grid.lon_corners_1d)
    /\ \A i \in 1..grid.nx :
          /\ InWindow(grid.lon_1d[i], ValueOf(grid.max_lon))
          /\ InWindow(grid.lon_corners_1d[i], ValueOf(grid.max_lon))

\* C9: with max_lon=None, construction ends with the 'not strictly
\* increasing' error only when the centre axis is strictly increasing in
\* neither [0, 360) nor [-180, 180); when it is strictly increasing in one of
\* them construction proceeds with a window in which it is, and records
\* split = 0 for [0, 360) and split = 180 for [-180, 180).
C9_Original_ErrorOnlyIfNoWindowFits ==
    (call = "Grid" /\ args.src.path # "bad" /\ args.x_is_lon
        /\ args.max_lon = None) =>
    LET raw    == args.src.lon
        in360  == [i \in 1..Len(raw) |-> Congruent(raw[i], 360)]
        in180  == [i \in 1..Len(raw) |-> Congruent(raw[i], 180)]
        inc360 == StrictlyIncreasing(in360)
        inc180 == StrictlyIncreasing(in180)
    IN  /\ ret.status = "exit" => ~inc360 /\ ~inc180
        /\ (inc360 \/ inc180) =>
              /\ ret.status = "ok"
              /\ \/ grid.split = Some(0) /\ inc360 /\ grid.lon_1d = in360
                 \/ grid.split = Some(180) /\ inc180 /\ grid.lon_1d = in180

\* the hfac array and the masks of a grid type
HfacOfType(g, gtype) ==
    IF gtype = "t" THEN g.hfac ELSE IF gtype = "u" THEN g.hfac_w ELSE g.hfac_s
LandOfType(g, gtype) ==
    IF gtype = "t" THEN g.land_mask
    ELSE IF gtype = "u" THEN g.land_mask_u ELSE g.land_mask_v
IceOfType(g, gtype) ==
    IF gtype = "t" THEN g.ice_mask
    ELSE IF gtype = "u" THEN g.ice_mask_u ELSE g.ice_mask_v

\* C10: for grid type t, u and v every point is in exactly one of the land
\* mask (whole column dry), the ice mask (some wet cell, top cell below 1)
\* and the open ocean (get_open_ocean_mask is 1); the open-ocean mask is the
\* complement of land or ice.
C10_LandIceOpenPartition ==
    (call = "get_open_ocean_mask" /\ args.gtype \in {"t", "u", "v"}) =>
    /\ ret.status = "ok"
    /\ \A j \in 1..grid.ny : \A i \in 1..grid.nx :
        LET hf   == HfacOfType(grid, args.gtype)
            dry  == \A k \in 1..Len(hf) : hf[k][j][i] = R(0)
            land == LandOfType(grid, args.gtype)[j][i]
            ice  == IceOfType(grid, args.gtype)[j][i]
            open == ret.value[j][i] = 1
        IN  /\ land <=> dry
            /\ ice <=> (~dry /\ RLt(hf[1][j][i], R(1)))
            /\ ret.value[j][i] \in {0, 1}
            /\ ~(land /\ ice)
            /\ open <=> ~(land \/ ice)
            /\ Cardinality({c \in {"land", "ice", "open"} :
                   \/ c = "land" /\ land
                   \/ c = "ice" /\ ice
                   \/ c = "open" /\ open}) = 1

\* an open-ocean mask of the v grid with a land point beside an ice point
\* whose top cell is dry
C10_Witness ==
    /\ call = "get_open_ocean_mask" /\ args.gtype = "v" /\ ret.status = "ok"
    /\ \E i \in 1..grid.nx : grid.land_mask_v[1][i] /\ ret.value[1][i] = 0
    /\ \E i \in 1..grid.nx :
          /\ grid.ice_mask_v[1][i]
          /\ grid.hfac_s[1][1][i] = R(0)
          /\ ret.value[1][i] = 0

\* C11: on a Grid whose top interface is 0 and whose hfac lies in [0,1], the
\* tracer-grid draft is 0 at exactly the points where ice_mask is false and
\* strictly negative at exactly the points where ice_mask is true.
C11_DraftZeroExactlyOffIce ==
    (grid # NoVal /\ grid.z_edges[1] = 0) =>
    \A j \in 1..grid.ny : \A i \in 1..grid.nx :
        /\ (\A k \in 1..grid.nz :
               RGe(grid.hfac[k][j][i], R(0)) /\ RLe(grid.hfac[k][j][i], R(1)))
        /\ grid.draft[j][i] = R(0) <=> ~grid.ice_mask[j][i]
        /\ RLt(grid.draft[j][i], R(0)) <=> grid.ice_mask[j][i]

\* a Grid with a land point beside an ice point whose top cell is dry and
\* whose draft lies at the top of the second cell
C11_Witness ==
    /\ grid # NoVal /\ grid.z_edges[1] = 0 /\ grid.nx = 2
    /\ grid.land_mask[1][1] /\ grid.draft[1][1] = R(0)
    /\ grid.ice_mask[1][2] /\ grid.hfac[1][1][2] = R(0)
    /\ grid.hfac[2][1][2] = R(1)
    /\ grid.draft[1][2] = R(grid.z_edges[2])

-----------------------------------------------------------------------------
(* Properties of the region masks *)

\* the coordinate arrays and the masks of a grid type
LonOfType(g, gtype) == IF gtype = "u" THEN g.lon_corners_2d ELSE g.lon_2d
LatOfType(g, gtype) == IF gtype = "v" THEN g.lat_corners_2d ELSE g.lat_2d
FrisOfType(g, gtype) ==
    IF gtype = "t" THEN g.fris_mask
    ELSE IF gtype = "u" THEN g.fris_mask_u ELSE g.fris_mask_v

\* box A: fris_bounds[0] <= lon <= -45, fris_bounds[2] <= lat <= -74.4
InBoxA(lon, lat) ==
    /\ RLe(fris_bounds[1], R(lon)) /\ lon <= -45
    /\ RLe(fris_bounds[3], lat) /\ RLe(lat, Rat(-744, 10))

\* box B: -45 <= lon <= fris_bounds[1], fris_bounds[2] <= lat <= -77.85
InBoxB(lon, lat) ==
    /\ -45 <= lon /\ RLe(R(lon), fris_bounds[2])
    /\ RLe(fris_bounds[3], lat) /\ RLe(lat, Rat(-7785, 100))

\* C12: for t, u and v the FRIS mask is exactly the set of points of the ice
\* mask of that grid type lying in box A or in box B on that grid type's own
\* coordinates; hence it is a subset of that ice mask.
C12_FrisMaskIsIceInBoxes ==
    grid # NoVal =>
    \A gtype \in {"t", "u", "v"} :
    \A j \in 1..grid.ny : \A i \in 1..grid.nx :
        LET lon  == LonOfType(grid, gtype)[j][i]
            lat  == LatOfType(grid, gtype)[j][i]
            ice  == IceOfType(grid, gtype)[j][i]
            fris == FrisOfType(grid, gtype)[j][i]
        IN  /\ fris <=> (ice /\ (InBoxA(lon, lat) \/ InBoxB(lon, lat)))
            /\ fris => ice

\* a Grid with a point whose corner longitude is in box B and whose centre
\* longitude is in neither box, held by the u mask and not by the t mask
C12_Witness ==
    /\ grid # NoVal
    /\ \E i \in 1..grid.nx :
          /\ grid.ice_mask_u[1][i]
          /\ grid.fris_mask_u[1][i] /\ ~grid.fris_mask[1][i]
          /\ InBoxB(grid.lon_corners_2d[1][i], grid.lat_2d[1][i])
          /\ ~InBoxB(grid.lon_2d[1][i], grid.lat_2d[1][i])

\* the membership test of build_fris_mask for region r at a point
InRegion(r, lon, lat) == in_bounds(lon, lat, fris_regions[r])

C14_ShelfMaskSameInBothWindows ==
    (grid # NoVal /\ grid.split \in {Some(0), Some(180)}) =>
    \A j \in 1..grid.ny : \A i \in 1..grid.nx :
        LET lon   == grid.lon_2d[j][i]
            lat   == grid.lat_2d[j][i]
            shift == IF grid.split = Some(0) THEN 360 ELSE 0
            base  == /\ ~grid.land_mask[j][i] /\ ~grid.ice_mask[j][i]
                     /\ RGe(grid.bathy[j][i], R(-1250))
                     /\ RLe(R(-79), lat) /\ RLe(lat, R(-72))
        IN  /\ grid.sws_shelf_mask[j][i]
                <=> (base /\ -70 + shift <= lon /\ lon <= -30 + shift)
            /\ InWindow(lon, ValueOf(grid.max_lon)) =>
                  (grid.sws_shelf_mask[j][i]
                      <=> (base /\ -70 <= Congruent(lon, 180)
                                /\ Congruent(lon, 180) <= -30))

\* a Grid normalized into [0, 360) whose shelf mask holds a point on the
\* shifted western bound and leaves out a point inside the box whose bed is
\* below the threshold
C14_Witness ==
    /\ grid # NoVal /\ grid.split = Some(0) /\ grid.nx = 2
    /\ grid.sws_shelf_mask[1][1] /\ grid.lon_2d[1][1] = 290
    /\ ~grid.sws_shelf_mask[1][2] /\ grid.lon_2d[1][2] = 310
    /\ ~grid.land_mask[1][2] /\ ~grid.ice_mask[1][2]
    /\ RLt(grid.bathy[1][2], sws_shelf_h0)

-----------------------------------------------------------------------------
(* Properties of the accessors *)

\* the accessors of one array per grid type
ArrayAccessors == {"get_hfac", "get_land_mask", "get_ice_mask", "get_fris_mask"}

\* the call ended with a fatal error and returned nothing
Failed == ret.status = "exit" /\ DOMAIN ret = {"status", "error"}

\* what get_lon_lat returns for t, w, u and v, and the failures of the other
\* accessors and of get_lon_lat on an unknown gtype or dim
AccessorsCommon ==
    /\ (call = "get_lon_lat" /\ args.dim \in {1, 2}) =>
        LET lon  == IF args.dim = 1 THEN grid.lon_1d ELSE grid.lon_2d
            lonc == IF args.dim = 1 THEN grid.lon_corners_1d
                    ELSE grid.lon_corners_2d
            lat  == IF args.dim = 1 THEN grid.lat_1d ELSE grid.lat_2d
            latc == IF args.dim = 1 THEN grid.lat_corners_1d
                    ELSE grid.lat_corners_2d
        IN  /\ args.gtype \in {"t", "w"} =>
                ret = [status |-> "ok", lon |-> lon, lat |-> lat]
            /\ args.gtype = "u" =>
                ret = [status |-> "ok", lon |-> lonc, lat |-> lat]
            /\ args.gtype = "v" =>
                ret = [status |-> "ok", lon |-> lon, lat |-> latc]
            /\ args.gtype \notin {"t", "u", "v", "psi", "w"} => Failed
    /\ (call = "get_lon_lat" /\ args.dim \notin {1, 2}) => Failed
    /\ (call \in ArrayAccessors /\ args.gtype \notin {"t", "u", "v"}) => Failed
    /\ (call \in ArrayAccessors /\ args.gtype \in {"t", "u", "v"}) =>
        /\ ret.status = "ok"
        /\ call = "get_hfac" => ret.value = HfacOfType(grid, args.gtype)
        /\ call = "get_land_mask" => ret.value = LandOfType(grid, args.gtype)
        /\ call = "get_ice_mask" => ret.value = IceOfType(grid, args.gtype)
        /\ call = "get_fris_mask" => ret.value = FrisOfType(grid, args.gtype)

\* C15 as stated: every unsupported argument ends in a fatal error, among
\* them get_lon_lat for 'psi' with dim=1; supported arguments return the
\* coordinate pair of the grid type.
C15_Original_PsiOneDimensionalFails ==
    /\ AccessorsCommon
    /\ (call = "get_lon_lat" /\ args.gtype = "psi" /\ args.dim = 1) => Failed

\* C15 amended: get_lon_lat fails for a gtype outside {t,u,v,psi,w} and for a
\* dim outside {1,2}; 'psi' is supported for dim=1 as for dim=2 and returns
\* (corner lon, corner lat); get_hfac, get_land_mask, get_ice_mask and
\* get_fris_mask fail for every gtype outside {t,u,v}; t and w return
\* (centre lon, centre lat), u (corner lon, centre lat), v (centre lon,
\* corner lat).
C15_AccessorsFailOnUnsupported ==
    /\ AccessorsCommon
    /\ (call = "get_lon_lat" /\ args.gtype = "psi" /\ args.dim = 1) =>
          ret = [status |-> "ok", lon |-> grid.lon_corners_1d,
                 lat |-> grid.lat_corners_1d]
    /\ (call = "get_lon_lat" /\ args.gtype = "psi" /\ args.dim = 2) =>
          ret = [status |-> "ok", lon |-> grid.lon_corners_2d,
                 lat |-> grid.lat_corners_2d]

\* get_lon_lat('psi', dim=1) returning the two corner axes, which differ
\* from the centre axes
C15_Witness ==
    /\ call = "get_lon_lat" /\ args.gtype = "psi" /\ args.dim = 1
    /\ ret.status = "ok"
    /\ ret.lon = grid.lon_corners_1d /\ ret.lon # grid.lon_1d
    /\ ret.lat = grid.lat_corners_1d /\ ret.lat # grid.lat_1d

-----------------------------------------------------------------------------
(* Properties of SOSEGrid *)

\* the constructor of a SOSEGrid with a model_grid is past line 626: ret holds
\* the object under construction
PastAxes ==
    /\ call \in {"SOSEGrid.axes", "SOSEGrid.fields"}
    /\ args.model_grid # None

ModelGrid == ValueOf(args.model_grid)

BoundErrors ==
    {"western bound not cleared", "eastern bound not cleared",
     "southern bound not cleared", "northern bound not cleared",
     "shallow bound not cleared", "deep bound not cleared"}

\* C16: whenever the constructor of a SOSEGrid with a model_grid gets past its
\* window computation, the new axes bracket the target on the four horizontal
\* sides and at both ends of the depth axis, and no construction from well
\* formed native axes ends on one of the six post-condition errors.
C16_AxesBracketTarget ==
    /\ PastAxes =>
          /\ ret.lon_corners_1d[1] <= amin(ModelGrid.lon_corners_2d)
          /\ ret.lon_corners_1d[Len(ret.lon_corners_1d)]
                 >= amax(ModelGrid.lon_2d)
          /\ RLe(ret.lat_corners_1d[1], amin_r(ModelGrid.lat_corners_2d))
          /\ RGe(ret.lat_corners_1d[Len(ret.lat_corners_1d)],
                 amax_r(ModelGrid.lat_2d))
          /\ ret.z[1] >= ModelGrid.z[1]
          /\ ret.z[Len(ret.z)] <= ModelGrid.z[Len(ModelGrid.z)]
    /\ (call = "SOSEGrid" /\ ret.status = "exit") =>
          ret.error \notin BoundErrors

\* a construction that trimmed the western columns, synthesized southern rows
\* and added a level at the top
C16_Witness ==
    /\ PastAxes
    /\ ret.i0_before > 0
    /\ ret.j0_after > 0
    /\ ret.k0_after = 1

\* a SOSEGrid construction with a model_grid that reached the window
\* computation: the path, the split and the rotated axes were accepted
ReachedWindows ==
    /\ call \in {"SOSEGrid", "SOSEGrid.axes", "SOSEGrid.fields"}
    /\ args.model_grid # None
    /\ args.src.path # "bad"
    /\ sose_max_lon(args.model_grid, args.split).status = "ok"
    /\ sose_lon_axes(args.src, args.split,
           sose_max_lon(args.model_grid, args.split).max_lon).status = "ok"

\* the native longitude axes after normalization and rotation
NativeAxes ==
    sose_lon_axes(args.src, args.split,
                  sose_max_lon(args.model_grid, args.split).max_lon)

ForbiddenExtension ==
    \/ amin(ModelGrid.lon_corners_2d) < NativeAxes.lon_1d[1]
    \/ amax(ModelGrid.lon_2d)
           > NativeAxes.lon_corners_1d[Len(NativeAxes.lon_corners_1d)]
    \/ RGt(amax_r(ModelGrid.lat_2d),
           args.src.lat_corners[Len(args.src.lat_corners)])

\* C17: a target reaching west of the first native centre longitude, east of
\* the last native corner longitude or north of the last native corner
\* latitude ends the construction in the window computation (never later, in
\* the post-condition checks); and every construction past the windows has
\* i0_after = 0, nx = i1_before - i0_before <= native nx and longitude axes
\* that are contiguous slices of the rotated native axes.
C17_NoExtensionWestEastNorth ==
    /\ (ReachedWindows /\ ForbiddenExtension) =>
          /\ call = "SOSEGrid"
          /\ ret.status = "exit"
          /\ ret.error \notin BoundErrors
    /\ PastAxes =>
          /\ ret.i0_after = 0
          /\ ret.nx = ret.i1_before - ret.i0_before
          /\ ret.nx = ret.i1_after
          /\ ret.nx <= Len(args.src.lon)
          /\ ret.nx = Len(ret.lon_1d)
          /\ ret.lon_1d = SubSeq(NativeAxes.lon_1d,
                                 ret.i0_before + 1, ret.i1_before)
          /\ ret.lon_corners_1d = SubSeq(NativeAxes.lon_corners_1d,
                                         ret.i0_before + 1, ret.i1_before)

\* a target reaching east of the last native corner, west and south bounds
\* accepted: the construction ended there
C17_Witness ==
    /\ ReachedWindows
    /\ amax(ModelGrid.lon_2d)
           > NativeAxes.lon_corners_1d[Len(NativeAxes.lon_corners_1d)]
    /\ call = "SOSEGrid"
    /\ ret.status = "exit"
    /\ ret.error = "not allowed to extend eastward"

\* the exact quotient (native lat[0] - ymin)/sose_res and its ceiling
SouthQuotient ==
    RDiv(RSub(args.src.lat[1], amin_r(ModelGrid.lat_corners_2d)), sose_res)

ExactCeil(q) ==
    IF q[1] % q[2] = 0 THEN q[1] \div q[2] ELSE (q[1] \div q[2]) + 1

\* C18: when ymin lies south of the first native centre latitude, exactly
\* ceil((native lat[0] - ymin)/sose_res) rows are synthesized, at native
\* lat[0] - m*sose_res for m = j0_after..1 (corners likewise), followed by the
\* native rows from the first one; a target exactly 2 steps south yields
\* exactly 2 rows; a target not south of the native coverage yields none.
\* The row count is computed in float64, where an exact whole number of steps
\* can come out one row too many: violated.
C18_Original_SouthRowsExactCeiling ==
    PastAxes =>
        IF RLt(amin_r(ModelGrid.lat_corners_2d), args.src.lat[1])
        THEN /\ ret.j0_after = ExactCeil(SouthQuotient)
             /\ \A m \in 1..ret.j0_after :
                   /\ ret.lat_1d[m] =
                          RSub(args.src.lat[1],
                               RMul(R((ret.j0_after - m) + 1), sose_res))
                   /\ ret.lat_corners_1d[m] =
                          RSub(args.src.lat_corners[1],
                               RMul(R((ret.j0_after - m) + 1), sose_res))
             /\ SubSeq(ret.lat_1d, ret.j0_after + 1, Len(ret.lat_1d))
                    = SubSeq(args.src.lat, 1, ret.j1_before)
        ELSE ret.j0_after = 0

\* the number of native levels down to the first one strictly deeper than zd
FirstDeeper(z, zd) ==
    CHOOSE k \in 1..Len(z) : z[k] < zd /\ \A h \in 1..(k - 1) : z[h] >= zd

\* C19: the new depth axis is the native one with one level of value 0 put on
\* top iff the target's shallowest centre is shallower than the native one,
\* one level of value 2*model_z[-1] - model_z[-2] put below iff the target's
\* deepest centre is deeper than the native one, and, iff the target's deepest
\* centre is shallower than the native deepest one, cut after the first
\* native level strictly deeper than it; nothing else is added or removed.
C19_DepthAxisTrimExtend ==
    PastAxes =>
        LET z  == args.src.z
            mz == ModelGrid.z
            zs == mz[1]
            zd == mz[Len(mz)]
            top    == IF zs > z[1] THEN <<0>> ELSE <<>>
            bottom == IF zd < z[Len(z)]
                      THEN <<2 * mz[Len(mz)] - mz[Len(mz) - 1]>> ELSE <<>>
            kept   == IF zd > z[Len(z)] THEN FirstDeeper(z, zd) ELSE Len(z)
        IN  /\ ret.z = top \o SubSeq(z, 1, kept) \o bottom
            /\ ret.nz = Len(ret.z)

\* a construction that put a level on top and cut the native axis short
C19_Witness ==
    /\ PastAxes
    /\ ModelGrid.z[1] > args.src.z[1]
    /\ ModelGrid.z[Len(ModelGrid.z)] > args.src.z[Len(args.src.z)]
    /\ ret.z[1] = 0
    /\ ret.k1_before < Len(args.src.z)

\* the native centre and corner longitudes normalized into [-180, 180)
NormLon == fix_lon_range(args.src.lon, Some(180))
NormCorners == fix_lon_range(args.src.lon_corners, Some(180))

\* the first index, counted from 0, of a negative normalized centre longitude
FirstNegative ==
    (CHOOSE c \in 1..Len(NormLon) :
         NormLon[c] < 0 /\ \A h \in 1..(c - 1) : NormLon[h] >= 0) - 1

\* native[p:] followed by native[:p]
Rotated(native, p) ==
    [i \in 1..Len(native) |-> native[((i + p - 1) % Len(native)) + 1]]

\* the rotated corner axis with its first entry lowered by 360 when positive
RotatedCorners ==
    LET r == Rotated(NormCorners, FirstNegative)
    IN  [i \in 1..Len(r) |-> IF i = 1 /\ r[1] > 0 THEN r[1] - 360 ELSE r[i]]

\* with split=180: the pivot, the centre axis, both axes increasing, and the
\* rotation never leaving well formed native axes out of order
SplitCentres ==
    /\ (PastAxes /\ args.split = 180) =>
          /\ ret.i_split = FirstNegative
          /\ ret.lon_1d = PySlice(Rotated(NormLon, FirstNegative),
                                  ret.i0_before, ret.i1_before)
          /\ StrictlyIncreasing(ret.lon_1d)
          /\ StrictlyIncreasing(ret.lon_corners_1d)
    /\ (call = "SOSEGrid" /\ args.split = 180 /\ ret.status = "exit") =>
          ret.error # "longitude is not strictly increasing"

\* with split=180: in the fields read by read_field, column i of every
\* retained row and level is the native column whose normalized centre
\* longitude is lon_1d[i]
SplitFields ==
    (call = "SOSEGrid.fields" /\ args.model_grid # None /\ args.split = 180)
    => \A i \in 1..ret.nx :
          \E c \in 1..Len(NormLon) :
             /\ NormLon[c] = ret.lon_1d[i]
             /\ \A j \in (ret.j0_after + 1)..ret.j1_after :
                   /\ ret.dA[j][i] =
                          args.src.dA[(j - ret.j0_after) + ret.j0_before][c]
                   /\ \A k \in (ret.k0_after + 1)..ret.k1_after :
                         ret.hfac[k][j][i] =
                             args.src.hfac[(k - ret.k0_after) + ret.k0_before]
                                          [(j - ret.j0_after) + ret.j0_before]
                                          [c]

\* C20 as stated: with split=180 i_split is the first native index of a
\* negative normalized centre longitude, the centre and the corner axis are
\* native[i_split:] followed by native[:i_split] (then trimmed) and strictly
\* increasing, and column i of every field read is the native column of
\* centre longitude lon_1d[i].  Violated: the corner axis is not the rotation
\* of the native one when its first entry is positive.
C20_Original_BothAxesAreRotations ==
    /\ SplitCentres
    /\ SplitFields
    /\ (PastAxes /\ args.split = 180) =>
          ret.lon_corners_1d = PySlice(Rotated(NormCorners, FirstNegative),
                                       ret.i0_before, ret.i1_before)

\* C20, amended: as above, but the corner axis is the rotation of the native
\* one with its first entry lowered by 360 when the rotation leaves it
\* positive.
C20_RotationAboutFirstNegative ==
    /\ SplitCentres
    /\ SplitFields
    /\ (PastAxes /\ args.split = 180) =>
          ret.lon_corners_1d = PySlice(RotatedCorners,
                                       ret.i0_before, ret.i1_before)

\* split=180, the fields read, the first rotated column kept and its corner
\* lowered by 360
C20_Witness ==
    /\ call = "SOSEGrid.fields"
    /\ args.model_grid # None
    /\ args.split = 180
    /\ ret.i_split > 0
    /\ ret.i0_before = 0
    /\ ret.lon_corners_1d[1] < -180

-----------------------------------------------------------------------------
(* Properties of read_field *)

\* the cell of a returned field at time t, level k, row j and column i; t
\* and k are ignored by the fields that lack the dimension
CellOf(data, dimensions, t, k, j, i) ==
    CASE dimensions = "z" -> data[k]
      [] dimensions = "xy" -> data[j][i]
      [] dimensions = "xyz" -> data[k][j][i]
      [] dimensions = "xyt" -> data[t][j][i]
      [] dimensions = "xyzt" -> data[t][k][j][i]

HasT(dimensions) == dimensions \in {"xyt", "xyzt"}
HasZ(dimensions) == dimensions \in {"z", "xyz", "xyzt"}
HasXY(dimensions) == dimensions # "z"

\* the number naming the native cell that the rotated native block puts at
\* level k, row j and column i of the new array
NativeNumber(self, dimensions, t, k, j, i) ==
    LET kn == (k - self.k0_after) + self.k0_before
        jn == (j - self.j0_after) + self.j0_before
        ir == (i - self.i0_after) + self.i0_before
        in == ((ir + self.i_split - 1) % SoseNx) + 1
    IN  (IF HasT(dimensions) THEN 1000 * t ELSE 0)
        + (IF HasZ(dimensions) THEN 100 * kn ELSE 0)
        + (IF HasXY(dimensions) THEN 10 * jn + in ELSE 0)

\* the shape of a returned field
ShapeOk(self, data, dimensions) ==
    CASE dimensions = "z" -> Len(data) = self.nz
      [] dimensions = "xy" ->
            Len(data) = self.ny /\ \A j \in 1..self.ny : Len(data[j]) = self.nx
      [] dimensions = "xyz" ->
            /\ Len(data) = self.nz
            /\ \A k \in 1..self.nz :
                  /\ Len(data[k]) = self.ny
                  /\ \A j \in 1..self.ny : Len(data[k][j]) = self.nx
      [] dimensions = "xyt" ->
            /\ Len(data) = NumTime
            /\ \A t \in 1..NumTime :
                  /\ Len(data[t]) = self.ny
                  /\ \A j \in 1..self.ny : Len(data[t][j]) = self.nx
      [] dimensions = "xyzt" ->
            /\ Len(data) = NumTime
            /\ \A t \in 1..NumTime :
                  /\ Len(data[t]) = self.nz
                  /\ \A k \in 1..self.nz :
                        /\ Len(data[t][k]) = self.ny
                        /\ \A j \in 1..self.ny : Len(data[t][k][j]) = self.nx

\* read_field was called on a trimmed and extended object
TrimmedRead ==
    /\ call = "SOSEGrid.read_field"
    /\ args.self.trim_extend

\* C21: on a trimmed and extended SOSEGrid, for each of the five dimension
\* tags, read_field returns an array of the new dimensions whose cells in the
\* block k0_after:k1_after, j0_after:j1_after, i0_after:i1_after are the cells
\* of the rotated native block k0_before:k1_before, j0_before:j1_before,
\* i0_before:i1_before, and whose other cells, which are exactly the cells of
\* the synthesized southern rows and of the synthesized top and bottom
\* levels, hold fill_value.
C21_ReadFieldBlockAndFill ==
    TrimmedRead =>
        LET self == args.self
            d    == args.dimensions
        IN  /\ ret.status = "ok"
            /\ ShapeOk(self, ret.data, d)
            /\ self.i0_after = 0 /\ self.i1_after = self.nx
            /\ self.j1_after = self.ny
            /\ self.k0_after \in {0, 1} /\ self.nz - self.k1_after \in {0, 1}
            /\ \A t \in 1..NumTime, k \in 1..self.nz, j \in 1..self.ny,
                  i \in 1..self.nx :
                  LET synthesized ==
                          \/ HasXY(d) /\ j <= self.j0_after
                          \/ HasZ(d) /\ (k <= self.k0_after \/ k > self.k1_after)
                  IN  CellOf(ret.data, d, t, k, j, i) =
                          IF synthesized THEN args.fill_value
                          ELSE NativeNumber(self, d, t, k, j, i)

\* a field with time and depth read on an object with rotated and trimmed
\* columns, synthesized southern rows and a synthesized top level
C21_Witness ==
    /\ TrimmedRead
    /\ args.dimensions = "xyzt"
    /\ args.self.i_split > 0
    /\ args.self.i0_before > 0
    /\ args.self.j0_after > 0
    /\ args.self.k0_after = 1
    /\ ret.status = "ok"
    /\ ret.data[2][1][1][1] = args.fill_value
    /\ ret.data[2][2][args.self.j0_after + 1][1] # args.fill_value

-----------------------------------------------------------------------------
(* Properties of SOSEGrid: construction as a whole *)

\* the scenario of C22: the native centres 0, 60, .., 300, split=0 and a
\* target whose longitudes, corners and centres, lie in [250, 290]
Scenario22 ==
    /\ args.src.path # "bad"
    /\ args.src.lon = <<0, 60, 120, 180, 240, 300>>
    /\ args.split = 0
    /\ args.model_grid # None
    /\ ModelGrid.split = Some(0)
    /\ amin(ModelGrid.lon_corners_2d) >= 250
    /\ amax(ModelGrid.lon_2d) <= 290

\* C22: in the scenario the construction completes without a fatal error and
\* trims the longitude axis to the 2 native columns covering the target, with
\* i0_before = 4, i0_after = 0, i1_before = 6 and i1_after = 2.  Violated: no
\* construction of the scenario completes.
C22_Original_ScenarioCompletes ==
    /\ (call = "SOSEGrid" /\ Scenario22) => ret.status = "ok"
    /\ (PastAxes /\ Scenario22) =>
          /\ ret.nx = 2
          /\ ret.i0_before = 4 /\ ret.i0_after = 0
          /\ ret.i1_before = 6 /\ ret.i1_after = 2

\* C23: a SOSEGrid built with a model_grid has the split of the model_grid:
\* a split argument that differs from model_grid.split ends the construction
\* in its checks, so every construction that passes them has
\* SOSEGrid.split = model_grid.split.  Violated: the checks of lines 422-438
\* read the target's longitudes, not its split.
C23_Original_SplitMatchesModelGrid ==
    PastAxes => Some(ret.split) = ModelGrid.split

\* C24: every grid of the Grid/SOSEGrid family, a SOSEGrid with a trimmed or
\* extended depth axis included, has z of nz entries and z_edges of nz + 1
\* entries, nz being the number of levels of hfac, so that bdry_from_hfac
\* finds a thickness for every level.  Violated: the depth axis built at
\* lines 594-599 gives z_edges nz entries.
C24_Original_EdgesOneMoreThanCentres ==
    /\ grid # NoVal =>
          /\ Len(grid.z) = grid.nz
          /\ Len(grid.z_edges) = grid.nz + 1
          /\ Len(grid.hfac) = grid.nz
    /\ call \in {"SOSEGrid.axes", "SOSEGrid.fields"} =>
          /\ Len(ret.z) = ret.nz
          /\ Len(ret.z_edges) = ret.nz + 1
    /\ call = "SOSEGrid.fields" => Len(ret.hfac) = ret.nz

-----------------------------------------------------------------------------
(* Properties of the accessors: the grid after construction *)

\* the calls that read a constructed grid
AccessorCalls ==
    {"get_lon_lat", "get_hfac", "get_land_mask", "get_ice_mask",
     "get_fris_mask", "get_open_ocean_mask", "get_bi_mask", "get_coast_mask",
     "read_field"}

\* C25: a grid is read-only after construction.  Every call of get_lon_lat,
\* get_hfac, get_land_mask, get_ice_mask, get_fris_mask, get_open_ocean_mask,
\* get_bi_mask, get_coast_mask and read_field leaves the grid, every stored
\* attribute of it, as it was; a read_field during construction leaves the
\* object under construction as it was; and what read_field returns is
\* determined by the unchanged grid and the source array, so that a repeated
\* read returns the same array.
C25_AccessorsLeaveGridUnchanged ==
    [][/\ (call = "idle" /\ call' \in AccessorCalls) => grid' = grid
       /\ (call = "SOSEGrid.axes" /\ call' = "SOSEGrid.read_field") =>
              args'.self = ret /\ grid' = grid
       /\ (call = "idle" /\ call' = "read_field") =>
              ret' = read_field(grid', args'.data_orig,
                                tag_rank(args'.dimensions), args'.dimensions,
                                args'.fill_value)]_vars

C25_Witness ==
    /\ call = "get_coast_mask"
    /\ grid # NoVal
    /\ grid.class = "Grid"
    /\ ret.status = "ok"
    /\ \E j \in 1..grid.ny, i \in 1..grid.nx :
          ret.value[j][i] /\ ~grid.land_mask[j][i]

-----------------------------------------------------------------------------
(* Properties of calc_timeseries *)

\* C26: calc_timeseries detects every caller-usage error, a missing keyword
\* combination as well as an invalid option or shelf_option, before any array
\* work begins: when the call ends on such an error, choose_grid has built no
\* Grid and no file has been read.  Violated: the option and shelf_option
\* values are tested after choose_grid.
C26_Original_UsageErrorsBeforeArrayWork ==
    (call = "calc_timeseries" /\ ret.status = "exit") => ret.events = <<>>

-----------------------------------------------------------------------------
(* Properties of Grid: the boundaries derived from hfac *)

\* C27: on every constructed Grid (hfac within [0, 1], z_edges[0] = 0) the
\* derived boundaries satisfy bathy <= draft <= 0 at every tracer point,
\* columns whose only wet cell is a single partial cell included.  Violated:
\* in such a column of fraction h < 1/2 the bathymetry z_edges[k] - dz[k]*h
\* lies above the draft z_edges[k] - dz[k]*(1 - h).
C27_Original_BathyBelowDraft ==
    (grid # NoVal /\ grid.class = "Grid") =>
        \A j \in 1..grid.ny, i \in 1..grid.nx :
            /\ RLe(grid.bathy[j][i], grid.draft[j][i])
            /\ RLe(grid.draft[j][i], R(0))

-----------------------------------------------------------------------------
(* Properties of Grid: the region masks under the two longitude windows *)

\* the Grid of the same source normalized into the other window
OtherWindow(m) == IF m = Some(180) THEN Some(360) ELSE Some(180)
OtherGrid == GridInit(args.src, args.x_is_lon, OtherWindow(args.max_lon))

\* C28: the FRIS masks, the Eastern Weddell mask and the inner and outer
\* parts of the shelf mask mark the same grid points whether the longitude
\* of the Grid was normalized into [-180, 180) (split = 180) or into
\* [0, 360) (split = 0).  Violated: only build_sws_shelf_mask moves its
\* bounds for split = 0.
C28_Original_RegionMasksSameInBothWindows ==
    (call = "Grid" /\ ret.status = "ok" /\ args.max_lon # None) =>
        /\ grid.fris_mask = OtherGrid.fris_mask
        /\ grid.fris_mask_u = OtherGrid.fris_mask_u
        /\ grid.fris_mask_v = OtherGrid.fris_mask_v
        /\ grid.ewed_mask = OtherGrid.ewed_mask
        /\ grid.sws_shelf_mask_inner = OtherGrid.sws_shelf_mask_inner
        /\ grid.sws_shelf_mask_outer = OtherGrid.sws_shelf_mask_outer

-----------------------------------------------------------------------------
(* Properties of Grid: construction without a longitude window *)

\* C29: Grid(path, x_is_lon=False) with max_lon=None completes and returns a
\* Grid with every mask built whose X coordinate arrays are the values read
\* from the source; and every completed Grid has split in {0, 180}.
\* Violated: split is set only for max_lon 360 and 180, and
\* build_sws_shelf_mask reads it.
C29_Original_CompletesWithoutWindow ==
    /\ (/\ call = "Grid"
        /\ args.src.path # "bad"
        /\ ~args.x_is_lon
        /\ args.max_lon = None) =>
            /\ ret.status = "ok"
            /\ grid # NoVal
            /\ grid.lon_1d = args.src.lon
            /\ grid.lon_corners_1d = args.src.lon_corners
    /\ (call = "Grid" /\ ret.status = "ok") =>
            grid.split \in {Some(0), Some(180)}

-----------------------------------------------------------------------------
(* Properties of calc_hfac: the triple given to z_to_xyz *)

\* calc_hfac with the thickness array tiled by [nx, ny, nz]
calc_hfac_intended(bathy, draft, z_edges, hFacMin, hFacMinDr, gtype) ==
    LET b2  == bathy_g(bathy, gtype)
        d2  == draft_g(bathy, draft, gtype)
        dz1 == dz_abs(z_edges)
        nz  == Len(dz1)
        ny  == Len(b2)
        nx  == Len(b2[1])
        b3  == xy_to_xyz(b2, <<nx, ny, nz>>)
        d3  == xy_to_xyz(d2, <<nx, ny, nz>>)
        dz3 == z_to_xyz(dz1, <<nx, ny, nz>>)
        za3 == z_to_xyz([k \in 1..nz |-> z_edges[k]], <<nx, ny, nz>>)
        zb3 == z_to_xyz([k \in 1..nz |-> z_edges[k+1]], <<nx, ny, nz>>)
    IN  [k \in 1..nz |-> [j \in 1..ny |-> [i \in 1..nx |->
            apply_limit(raw_hfac(b3[k][j][i], d3[k][j][i], za3[k][j][i],
                                 zb3[k][j][i], dz3[k][j][i]),
                        hfac_limit(hFacMin, hFacMinDr, dz3[k][j][i]))]]]

\* the thickness array of a call of calc_hfac, tiled by the given triple
ThicknessTiled(third) ==
    z_to_xyz(dz_abs(args.z_edges),
             <<Len(args.bathy[1]), Len(args.bathy), third>>)

\* C30: the cell-thickness array calc_hfac tiles with [nx, ny, ny] is, element
\* for element, the array tiled with [nx, ny, nz], for every shape and every
\* gtype, z_to_xyz reading only the first two entries of the triple; and
\* calc_hfac returns what an implementation using [nx, ny, nz] returns.
C30_TripleThirdEntryUnread ==
    call = "calc_hfac" =>
        /\ ThicknessTiled(Len(args.bathy))
               = ThicknessTiled(Len(args.z_edges) - 1)
        /\ ret.hfac = calc_hfac_intended(args.bathy, args.draft, args.z_edges,
                                         args.hFacMin, args.hFacMinDr,
                                         args.gtype)

C30_Witness ==
    /\ call = "calc_hfac"
    /\ args.gtype = "v"
    /\ Len(args.bathy) = 2
    /\ Len(args.z_edges) - 1 = 3
    /\ \E k \in 1..3, j \in 1..2 :
          /\ RLt(R(0), ret.hfac[k][j][1])
          /\ RLt(ret.hfac[k][j][1], R(1))

====
